---- MODULE Spec2Model ----
(***************************************************************************)
(* A model of simwatch-grpc: the binary track file and the track store     *)
(* (src/src/trackfile.rs, src/src/track/), and the weather cache with its  *)
(* blacklist (src/src/weather/mod.rs).                                     *)
(*                                                                         *)
(* Time is the wall clock Utc::now() in milliseconds.                      *)
(***************************************************************************)
EXTENDS Integers, Sequences, FiniteSets, TLC

VARIABLES
  now,        \* Utc::now(), in milliseconds
  files,      \* the track store folder: file name -> file on disk
  hist,       \* ghost of the track store's own specifications: the entries appended to each file
  created,    \* ghost of the same: the file was created by TrackFile::new in this run
  ret,        \* the result of the last track operation
  cache,      \* WeatherManager.cache: station -> observation
  blacklist,  \* WeatherManager.blacklist: station -> blacklist item
  apireq,     \* WeatherManager.apireq_num
  task,       \* the tasks that call the weather manager: position and locals
  fails,      \* ghost: empty lookups of a station since its last successful fetch
  ing,        \* Manager::run: the position and the locals of the ingest loop
  pilots,     \* Manager.pilots: callsign -> pilot
  pilots2d,   \* Manager.pilots2d: the R-tree, a bag of point objects
  pilots_po,  \* Manager.pilots_po: callsign -> point object
  fixed,      \* Manager.fixed: airport -> controllers and weather
  firs,       \* Manager.fixed: FIR -> its controllers by callsign
  metrics,    \* Manager.metrics
  written,    \* ghost: the metrics set by the last step
  calc,       \* a diff of the session: its input, the retained map before and after, its batches
  lee,        \* a filter query: its lexemes, the parsed and the compiled expression, a verdict
  sess,       \* map_updates: the position and the locals of a session loop
  rx,         \* the channel of the session: the messages not yet taken
  client,     \* ghost: the objects a client holds after applying the batches
  prs,        \* parse of the reference data: the source, the line reached, the lists so far
  lookup,     \* a FIR lookup: the reference data, the code asked for, the indices found
  locks,      \* the RwLocks of the Manager: the guards out and the tasks waiting, in their order
  proc,       \* the tasks that take the locks: the step each is at and the locks it holds
  closed,     \* the request stream of the client has ended and proxy_requests has returned
  apt,        \* an airport of FixedData: its ATIS slot, its runways, the runways last sent to a client
  stored,     \* ghost: per track file, the time store_track last succeeded for it
  geo         \* a viewport and a point: the envelopes of the viewport, the point found or not

trackVars == <<files, hist, created, ret>>
wxVars == <<cache, blacklist, apireq, task, fails>>
ingVars == <<ing, pilots, pilots2d, pilots_po, fixed, firs, metrics, written>>
\* the variables of the ingest loop and of what is modelled after it
sessVars == <<calc, lee, sess, rx, client>>
appVars == <<ingVars, sessVars>>
\* the variables of the reference data, of the viewport and of the locks
lockVars == <<locks, proc>>
\* the variables that store_track leaves alone
keptVars == <<prs, lookup, geo, lockVars, closed, apt>>
refVars == <<keptVars, stored>>
vars ==
  <<now, files, hist, created, ret, cache, blacklist, apireq, task, fails, appVars, refVars>>

----------------------------------------------------------------------------
(* Bounds of the model *)

\* appends to one file between its creation and its removal
MaxAppends == 6
\* the same, where the clock and the store walks are modelled as well
MaxStoreAppends == 2
MaxKeepAppends == 3
\* the clock advances in short steps only this far into a long step (ms)
MaxFrac == 1800
\* the long clock steps taken
MaxLong == 1
\* the steps of the clock in the weather model
MaxTicks == 2
\* the upstream requests sent
MaxRequests == 3
\* the same two, where the ingest loop asks for one station only
MaxBackoffTicks == 4
MaxBackoffRequests == 5
\* the timestamps of the snapshots the upstream hands out
MaxStamp == 2
\* the pilots of one snapshot
MaxPilots == 2
\* the iterations of the ingest loop
MaxIters == 2
\* the length of a result handed to a session diff
MaxCalcLen == 2
\* the length of a query of any lexemes, and the conditions of a query of
\* conditions joined by AND and OR
MaxQueryLen == 3
MaxConds == 3
\* the messages a client sends to a session, and the iterations of its loop
MaxMessages == 3
MaxPending == 1
MaxSessIters == 4
MaxFeedMessages == 1
MaxFeedIters == 2
\* the iterations of the ingest loop where its cleanup countdown is followed
MaxLoopIters == 7
\* the messages of a client that ends its stream, the messages that wait in
\* the channel, and the iterations of the loop while the stream is open
MaxStreamMessages == 2
MaxStreamPending == 2
MaxStreamIters == 2
\* the lines of a source of the reference data
MaxLines == 3
\* the FIRs and the airports of a reference data
MaxRefLen == 2
\* the sessions that take the locks of the manager
MaxSessions == 2
MaxFairSessions == 1
\* the elements of a collection the ingest loop iterates over
MaxElems == 1

FileNames == {"f1", "f2"}
Values == {1, 2}
\* positions and lengths asked of the random-access reads
Positions == 0..3
Lengths == 0..2

----------------------------------------------------------------------------
(* Program constants *)

\* size_of::<Header>(): four u64
HeaderSize == 32
\* size_of::<TrackPoint>(): repr(C) f64, f64, i32, i16, i32, i64 with padding
EntrySize == 40
TRACK_MAGIC_NUMBER == "119F3E5F006A42C8"
\* Duration::days(2) in seconds
TwoDaysSec == 172800
TwoDaysMs == TwoDaysSec * 1000

----------------------------------------------------------------------------
(* Track file: src/src/trackfile.rs *)

NoFile == [exists |-> FALSE, magic |-> "", ts |-> 0, count |-> 0, body |-> <<>>, extra |-> 0]

\* an all-zero read buffer decoded as an entry
ZeroEntry == [v |-> 0, ts |-> 0]

\* impl PartialEq for TrackPoint: the timestamp is not compared
EntryEq(a, b) == a.v = b.v

\* impl Default for Header
DefaultHeader(t) ==
  [exists |-> TRUE, magic |-> TRACK_MAGIC_NUMBER, ts |-> t, count |-> 0, body |-> <<>>, extra |-> 0]

\* std::fs::metadata(..).len()
FileLen(f) == HeaderSize + Len(f.body) * EntrySize + f.extra

\* a faulty check that tests the magic number only
CheckMagicOnly(f) ==
  IF f.magic # TRACK_MAGIC_NUMBER THEN "InvalidMagicNumber" ELSE "ok"

\* TrackFile::check
Check(f) ==
  IF f.magic # TRACK_MAGIC_NUMBER THEN "InvalidMagicNumber"
  ELSE IF FileLen(f) # f.count * EntrySize + HeaderSize THEN "InvalidFileLength"
  ELSE "ok"

\* TrackFile::new: open, or create with a default header; then check
New(f, t) ==
  LET file == IF f.exists THEN f ELSE DefaultHeader(t)
  IN [file |-> file, err |-> Check(file), isNew |-> ~f.exists]

\* File::read_at of one entry buffer at a byte offset; bytes past the end of
\* the file are not read and the buffer keeps its zeroes
ReadEntryAt(f, offset) ==
  LET idx == ((offset - HeaderSize) \div EntrySize) + 1
  IN IF idx >= 1 /\ idx <= Len(f.body) THEN f.body[idx] ELSE ZeroEntry

\* TrackFile::read_at
ReadAt(f, pos) ==
  IF pos >= f.count
    THEN [kind |-> "IndexError", val |-> <<>>]
    ELSE [kind |-> "ok", val |-> <<ReadEntryAt(f, HeaderSize + pos * EntrySize)>>]

\* TrackFile::read_multiple_at.  `count - pos` is a usize subtraction: with
\* pos > count a debug build panics there, a release build wraps to a length
\* near 2^64 and panics in buf.resize (capacity overflow).
ReadMultipleAt(f, pos, len) ==
  LET count == f.count IN
  IF pos + len > count /\ pos > count
    THEN [kind |-> "panic", val |-> <<>>]
    ELSE
      LET n == IF pos + len > count THEN count - pos ELSE len IN
      IF n < 1
        THEN [kind |-> "ok", val |-> <<>>]
        ELSE [kind |-> "ok",
              val |-> [i \in 1..n |-> ReadEntryAt(f, HeaderSize + pos * EntrySize + (i - 1) * EntrySize)]]

\* TrackFile::read_all
ReadAll(f) ==
  [kind |-> "ok", val |-> [i \in 1..f.count |-> ReadEntryAt(f, HeaderSize + (i - 1) * EntrySize)]]

\* a faulty offset that compares the new entry with the last entry only
AppendOffsetLastOnly(f, e) ==
  IF f.count < 1 THEN 0
  ELSE IF EntryEq(f.body[f.count], e) THEN -EntrySize ELSE 0

\* TrackFile::append, the seek offset: 0 appends, -entry_size overwrites
AppendOffset(f, e) ==
  IF f.count < 2 THEN 0
  ELSE
    LET last_two == ReadMultipleAt(f, f.count - 2, 2).val
        last == last_two[2]
        prev == last_two[1]
    IN IF EntryEq(last, prev) /\ EntryEq(prev, e) THEN -EntrySize ELSE 0

\* a faulty inc that refreshes the timestamp and loses the count
IncTsOnly(f, t) == [f EXCEPT !.ts = t]

\* TrackFile::inc with Header::inc: ts = now, count += 1
Inc(f, t) == [f EXCEPT !.ts = t, !.count = @ + 1]

\* a faulty write that always seeks to the end of the file
WriteEntryAtEnd(f, offset, e) == [f EXCEPT !.body = Append(@, e)]

\* file.seek(SeekFrom::End(offset)); file.write_all(entry)
WriteEntryAt(f, offset, e) ==
  LET pos == FileLen(f) + offset
      idx == ((pos - HeaderSize) \div EntrySize) + 1
  IN IF idx > Len(f.body)
       THEN [f EXCEPT !.body = Append(@, e)]
       ELSE [f EXCEPT !.body = [@ EXCEPT ![idx] = e]]

\* TrackFile::append
AppendEntry(f, e, t) ==
  LET offset == AppendOffset(f, e)
      f1 == IF offset = 0 THEN Inc(f, t) ELSE f
  IN WriteEntryAt(f1, offset, e)

\* a DateTime as <<seconds, nanoseconds>>
DateLess(a, b) == a[1] < b[1] \/ (a[1] = b[1] /\ a[2] < b[2])

\* Utc::now() as a DateTime
NowDate(t) == <<t \div 1000, (t % 1000) * 1000000>>

\* TrackFile::mtime: DateTime::from_timestamp(ts / 1000, (ts % 1000) * 1000)
MTime(f) == <<f.ts \div 1000, (f.ts % 1000) * 1000>>

----------------------------------------------------------------------------
(* Track store: src/src/track/mod.rs *)

NoRet == [op |-> "none", file |-> "", kind |-> "ok", val |-> <<>>, pos |-> 0, len |-> 0,
          names |-> {}, tc |-> 0, tpc |-> 0]

\* Store::collect_track_files: the files TrackFile::new opens without error
CollectTrackFiles(fs) == {n \in FileNames : fs[n].exists /\ New(fs[n], 0).err = "ok"}

RECURSIVE SumCounts(_, _)
SumCounts(fs, S) ==
  IF S = {} THEN 0
  ELSE LET n == CHOOSE x \in S : TRUE IN fs[n].count + SumCounts(fs, S \ {n})

\* Store::cleanup, the test on one file: mtime < Utc::now() - Duration::days(2)
TooOld(f, t) ==
  LET n == NowDate(t) IN DateLess(MTime(f), <<n[1] - TwoDaysSec, n[2]>>)

\* the outcome of opening file n through Store::get_pilot_track_file
Opened(n) == New(files[n], now)

\* Store::store_track, for a file that took fewer than max appends so far
StoreTrack(n, v, max) ==
  /\ Len(hist[n]) < max
  /\ LET o == Opened(n)
         e == [v |-> v, ts |-> Len(hist[n]) + 1]
     IN IF o.err # "ok"
          THEN /\ ret' = [NoRet EXCEPT !.op = "append", !.file = n, !.kind = o.err, !.val = <<e>>]
               /\ UNCHANGED <<files, hist, created, stored>>
          ELSE /\ files' = [files EXCEPT ![n] = AppendEntry(o.file, e, now)]
               /\ hist' = [hist EXCEPT ![n] = Append(@, e)]
               /\ created' = [created EXCEPT ![n] = @ \/ o.isNew]
               /\ stored' = [stored EXCEPT ![n] = <<now>>]
               /\ ret' = [NoRet EXCEPT !.op = "append", !.file = n, !.val = <<e>>]
  /\ UNCHANGED <<keptVars, now, wxVars, appVars>>

\* a read through a handle that TrackFile::new returned
ReadOp(n, op, r, pos, len) ==
  LET o == Opened(n) IN
  /\ IF o.err # "ok"
       THEN /\ ret' = [NoRet EXCEPT !.op = op, !.file = n, !.kind = o.err, !.pos = pos, !.len = len]
            /\ UNCHANGED <<refVars, files, created>>
       ELSE /\ files' = [files EXCEPT ![n] = o.file]
            /\ created' = [created EXCEPT ![n] = @ \/ o.isNew]
            /\ ret' = [NoRet EXCEPT !.op = op, !.file = n, !.kind = r.kind, !.val = r.val,
                                    !.pos = pos, !.len = len]
  /\ UNCHANGED <<refVars, now, hist, wxVars, appVars>>

\* Store::get_track_points
GetTrackPoints(n) == ReadOp(n, "read_all", ReadAll(Opened(n).file), 0, 0)

ReadAtOp(n, pos) == ReadOp(n, "read_at", ReadAt(Opened(n).file, pos), pos, 0)

ReadMultipleAtOp(n, pos, len) ==
  ReadOp(n, "read_multiple_at", ReadMultipleAt(Opened(n).file, pos, len), pos, len)

\* Store::counters
Counters ==
  /\ LET ok == CollectTrackFiles(files)
     IN ret' = [NoRet EXCEPT !.op = "counters", !.tc = Cardinality(ok), !.tpc = SumCounts(files, ok)]
  /\ UNCHANGED <<refVars, now, files, hist, created, wxVars, appVars>>

\* Store::cleanup
Cleanup ==
  /\ LET gone == {n \in CollectTrackFiles(files) : TooOld(files[n], now)}
     IN /\ files' = [n \in FileNames |-> IF n \in gone THEN NoFile ELSE files[n]]
        /\ hist' = [n \in FileNames |-> IF n \in gone THEN <<>> ELSE hist[n]]
        /\ created' = [n \in FileNames |-> IF n \in gone THEN FALSE ELSE created[n]]
        /\ ret' = [NoRet EXCEPT !.op = "cleanup", !.names = gone]
  /\ UNCHANGED <<refVars, now, wxVars, appVars>>

\* the clock: short steps of some hundred milliseconds, long steps of about two days
ShortSteps == {400}
LongSteps == {TwoDaysMs - 100, TwoDaysMs + 100}

TickTrack ==
  /\ \E d \in ShortSteps \cup LongSteps :
       /\ d \in ShortSteps => (now % TwoDaysMs) + d <= MaxFrac
       /\ d \in LongSteps => now + d <= MaxLong * TwoDaysMs + MaxFrac
       /\ now' = now + d
  /\ ret' = [NoRet EXCEPT !.op = "tick"]
  /\ UNCHANGED <<refVars, files, hist, created, wxVars, appVars>>

\* files found on disk at boot: none, or files a crash or another program left
BadMagicFile == [DefaultHeader(0) EXCEPT !.magic = "0000000000000000"]
\* the header counts an entry that was never written
BadLenFile == [DefaultHeader(0) EXCEPT !.count = 1]
InitialFiles == {NoFile, BadMagicFile, BadLenFile}

----------------------------------------------------------------------------
(* Weather cache: src/src/weather/mod.rs *)

Stations == {"EGLL", "KLAX"}
\* the ingest loop (Manager::run) and the sweep loop (WeatherManager::run)
Tasks == {"ingest", "sweep"}

\* WeatherManager::new(Duration::seconds(1800)) in Manager::run
MetarTtlSec == 1800
MetarTtl == MetarTtlSec * 1000
\* BlackListItem::new: Duration::seconds(3600)
BlacklistSec == 3600
\* the clock step of the weather model
WxTick == MetarTtl
\* the age of an observation when the upstream hands it out: new, or older
\* than the time to live
MetarAges == {0, 2 * MetarTtl}

NoWx == [present |-> FALSE, ts |-> 0]
NoItem == [present |-> FALSE, set_at |-> 0, duration |-> 0]

\* BlackListItem::new
NewItem(t) == [present |-> TRUE, set_at |-> t, duration |-> BlacklistSec * 1000]

\* BlackListItem::double
Double(item, t) == [present |-> TRUE, set_at |-> t, duration |-> item.duration * 2]

\* BlackListItem::expired
Expired(item, t) == t > item.set_at + item.duration

\* WeatherManager::is_blacklisted
IsBlacklisted(loc) == blacklist[loc].present /\ ~Expired(blacklist[loc], now)

\* a faulty cache test that never finds an entry valid
HasValidCacheForNever(loc) == cache[loc].present /\ now - cache[loc].ts > now

\* WeatherManager::has_valid_cache_for
HasValidCacheFor(loc) == cache[loc].present /\ now - cache[loc].ts < MetarTtl

\* WeatherManager::get_cache: the entry is returned unless delta > metar_ttl
CacheHit(loc) == cache[loc].present /\ ~(now - cache[loc].ts > MetarTtl)

\* WeatherManager::run, the expired keys of the cache
ExpiredKeys == {s \in Stations : cache[s].present /\ now - cache[s].ts >= MetarTtl}

\* get_remote, the blacklist item written after an empty result
Blacklisted(item, t) == IF item.present THEN Double(item, t) ELSE NewItem(t)

IdleTask == [pc |-> "idle", locs |-> {}, same |-> FALSE, todo |-> {}, results |-> {},
             allFresh |-> FALSE, gets |-> {}, station |-> "", wx |-> 0]

Set(t, r) == task' = [task EXCEPT ![t] = r]

\* WeatherManager::preload is entered with the given locations
BeginPreload(t, L, gets) ==
  Set(t, [task[t] EXCEPT !.pc = "filter", !.locs = L, !.same = (L = task[t].locs /\ L # {}),
                         !.todo = L, !.results = {}, !.allFresh = TRUE, !.gets = gets])

\* Manager::run: preload(controlled airports), then get for each of them
IngestStart(L) ==
  /\ task["ingest"].pc = "idle"
  /\ BeginPreload("ingest", L, L)
  /\ UNCHANGED <<refVars, now, cache, blacklist, apireq, fails, trackVars, appVars>>

\* WeatherManager::run: preload the expired keys, then sleep
SweepScan ==
  /\ task["sweep"].pc = "idle"
  /\ ExpiredKeys # {}
  /\ BeginPreload("sweep", ExpiredKeys, {})
  /\ UNCHANGED <<refVars, now, cache, blacklist, apireq, fails, trackVars, appVars>>

\* preload, one turn of the filter loop
PreloadCheck(t) ==
  /\ task[t].pc = "filter"
  /\ \E loc \in task[t].todo :
       LET blacklisted == IsBlacklisted(loc)
           has_valid_cache == HasValidCacheFor(loc)
           fresh == cache[loc].present /\ now - cache[loc].ts < MetarTtl
       IN Set(t, [task[t] EXCEPT
                    !.todo = @ \ {loc},
                    !.results = IF ~blacklisted /\ ~has_valid_cache THEN @ \cup {loc} ELSE @,
                    !.allFresh = @ /\ fresh])
  /\ UNCHANGED <<refVars, now, cache, blacklist, apireq, fails, trackVars, appVars>>

\* the task's record after preload returned: the gets of the ingest loop, or idle
AfterPreload(r) ==
  [r EXCEPT !.pc = IF r.gets = {} THEN "idle" ELSE "get_cache",
            !.results = {}, !.allFresh = FALSE, !.same = FALSE]

\* preload after the filter loop: return if nothing is left, else send the request
PreloadRequest(t, max) ==
  /\ task[t].pc = "filter"
  /\ task[t].todo = {}
  /\ IF task[t].results = {}
       THEN /\ Set(t, AfterPreload(task[t]))
            /\ UNCHANGED apireq
       ELSE /\ apireq < max
            /\ apireq' = apireq + 1
            /\ Set(t, [task[t] EXCEPT !.pc = "preload_wait"])
  /\ UNCHANGED <<refVars, now, cache, blacklist, fails, trackVars, appVars>>

\* preload, the upstream answers: an error, or observations for some stations
PreloadResponse(t) ==
  /\ task[t].pc = "preload_wait"
  /\ \/ /\ Set(t, AfterPreload(task[t]))
        /\ UNCHANGED <<refVars, cache, fails>>
     \/ \E S \in SUBSET task[t].results, age \in MetarAges :
          /\ cache' = [s \in Stations |->
                         IF s \in S THEN [present |-> TRUE, ts |-> now - age] ELSE cache[s]]
          /\ fails' = [s \in Stations |-> IF s \in S THEN 0 ELSE fails[s]]
          /\ Set(t, AfterPreload(task[t]))
  /\ UNCHANGED <<refVars, now, blacklist, apireq, trackVars, appVars>>

\* the task's record after WeatherManager::get returned for its station
AfterGet(r) ==
  LET left == r.gets \ {r.station}
  IN [r EXCEPT !.gets = left, !.pc = IF left = {} THEN "idle" ELSE "get_cache",
               !.station = "", !.wx = 0]

\* get: get_cache
GetCache(t) ==
  /\ task[t].pc = "get_cache"
  /\ \E s \in task[t].gets :
       IF CacheHit(s)
         THEN Set(t, AfterGet([task[t] EXCEPT !.station = s]))
         ELSE Set(t, [task[t] EXCEPT !.station = s, !.pc = "remote_check"])
  /\ UNCHANGED <<refVars, now, cache, blacklist, apireq, fails, trackVars, appVars>>

\* get_remote: is_blacklisted
GetRemoteCheck(t) ==
  /\ task[t].pc = "remote_check"
  /\ IF IsBlacklisted(task[t].station)
       THEN Set(t, AfterGet(task[t]))
       ELSE Set(t, [task[t] EXCEPT !.pc = "get_send"])
  /\ UNCHANGED <<refVars, now, cache, blacklist, apireq, fails, trackVars, appVars>>

\* get_remote: inc_apireq and send
GetSend(t, max) ==
  /\ task[t].pc = "get_send"
  /\ apireq < max
  /\ apireq' = apireq + 1
  /\ Set(t, [task[t] EXCEPT !.pc = "get_wait"])
  /\ UNCHANGED <<refVars, now, cache, blacklist, fails, trackVars, appVars>>

\* get_remote, the upstream answers: an error, an empty array, or an observation
GetResponse(t) ==
  /\ task[t].pc = "get_wait"
  /\ LET s == task[t].station IN
     \/ /\ Set(t, AfterGet(task[t]))
        /\ UNCHANGED <<refVars, blacklist, fails>>
     \/ /\ blacklist' = [blacklist EXCEPT ![s] = Blacklisted(@, now)]
        /\ fails' = [fails EXCEPT ![s] = @ + 1]
        /\ Set(t, AfterGet(task[t]))
     \/ /\ \E age \in MetarAges :
             Set(t, [task[t] EXCEPT !.pc = "get_store", !.wx = now - age])
        /\ fails' = [fails EXCEPT ![s] = 0]
        /\ UNCHANGED blacklist
  /\ UNCHANGED <<refVars, now, cache, apireq, trackVars, appVars>>

\* get: the fetched observation is put into the cache
GetStore(t) ==
  /\ task[t].pc = "get_store"
  /\ cache' = [cache EXCEPT ![task[t].station] = [present |-> TRUE, ts |-> task[t].wx]]
  /\ Set(t, AfterGet(task[t]))
  /\ UNCHANGED <<refVars, now, blacklist, apireq, fails, trackVars, appVars>>

TickWx(max) ==
  /\ now + WxTick <= (max + 2) * WxTick
  /\ now' = now + WxTick
  /\ UNCHANGED <<refVars, wxVars, trackVars, appVars>>

----------------------------------------------------------------------------
(* Ingest loop: src/src/manager/mod.rs, Manager::run *)

Callsigns == {"AAL1", "BAW2"}
\* positions; a pilot's track point carries the position
Points == Values
Airports == {"EGLL"}
Facilities == {"tower"}
\* two tower controllers of the one airport and a radar controller
Controllers == {"EGLL_TWR", "EGLL_1_TWR", "LON_CTR"}
\* the FIRs of the reference data
WorldFirs == {"EGTT"}
WxValues == {1}

CLEANUP_EVERY_X_ITER == 5
\* ApiConfig::default: poll_period, in milliseconds
PollPeriod == 15000
\* u8::MAX, what 0 - 1 wraps to in a release build
U8Max == 255

\* Store::pilot_track_filename: one file per cid, callsign and logon time
TrackFileOf(cs) == IF cs = "AAL1" THEN "f1" ELSE "f2"

\* FixedData::get_geonames_country_by_position: position 2 is over the sea
Country(pos) == IF pos = 1 THEN "GB" ELSE ""

\* set_airport_controller: the callsign up to the first '_' is the airport code
CtrlAirport(c) == "EGLL"
\* Controller.facility
CtrlFacility(c) == IF c \in {"LON_CTR", "A_CTR"} THEN "radar" ELSE "tower"
\* the bytes of the callsign up to the first '_'
CodeLen(c) == IF c = "A_CTR" THEN 1 ELSE IF c = "EGLL_TWR" \/ c = "EGLL_1_TWR" THEN 4 ELSE 3
\* set_fir_controller slices &code[..2]: a shorter code panics
SliceFails(c) == CodeLen(c) < 2
\* FixedData::find_fir_indices: LON is the prefix of the London FIR
CtrlFirs(c) == {"EGTT"}

NoPilot == [present |-> FALSE, pos |-> 0]
NoPo == [present |-> FALSE, id |-> "", point |-> 0]
NoCtrl == [cs |-> "", lu |-> 0]
NoCur == [callsign |-> "", position |-> 0]

\* impl From<&Pilot> for PointObject
PointObjectOf(p) == [present |-> TRUE, id |-> p.callsign, point |-> p.position]

\* a faulty removal that finds nothing in the tree
TreeRemoveNothing(tree, po) == tree

\* RTree::remove: one element at the envelope of po that equals po (by id)
TreeRemove(tree, po) ==
  IF tree[<<po.id, po.point>>] > 0
    THEN [tree EXCEPT ![<<po.id, po.point>>] = @ - 1]
    ELSE tree

\* RTree::insert
TreeInsert(tree, po) == [tree EXCEPT ![<<po.id, po.point>>] = @ + 1]

\* a faulty test that takes a snapshot of the same age for a new one
IsNewerOrSame(ts, last) == ts >= last

\* Manager::run: ts > data_updated_at
IsNewer(ts, last) == ts > last

\* ghost: the position of each callsign where the snapshot had it last, 0 for
\* a callsign the snapshot has not
NoneSeen == [c \in Callsigns |-> 0]

IdleIng ==
  [pc |-> "fetch", left |-> 0, seen |-> NoneSeen, ts |-> 0, cur |-> NoCur,
   po |-> NoPo, after |-> "", fresh |-> {}, gone |-> {}, grouped |-> 0,
   pilots_callsigns |-> {}, controllers |-> {}, fresh_controllers |-> {},
   data_updated_at |-> 0, cleanup |-> CLEANUP_EVERY_X_ITER, iter |-> 0, stale |-> FALSE]

\* the loop over the callsigns not met in this iteration: the next one to
\* remove, or the end of the pilot phase
AbsentSteps(r) ==
  IF r.gone = {}
    THEN {[r EXCEPT !.pc = "pilot_metrics", !.cur = NoCur, !.po = NoPo, !.after = ""]}
    ELSE {[r EXCEPT !.pc = "rm_po", !.cur = [callsign |-> cs, position |-> 0], !.po = NoPo,
                    !.gone = @ \ {cs}, !.after = "absent"] : cs \in r.gone}

\* the loop over data.pilots: the next pilot, or on to the absent callsigns.
\* The list is read front to back; each pilot is drawn when the loop reaches it,
\* and a callsign may come more than once.
PilotSteps(r) ==
  IF r.left > 0
    THEN {[r EXCEPT !.pc = "rm_po", !.cur = p, !.po = NoPo, !.left = @ - 1,
                    !.seen[p.callsign] = p.position, !.after = "insert"] :
            p \in [callsign : Callsigns, position : Points]}
    ELSE AbsentSteps([r EXCEPT !.gone = r.pilots_callsigns \ r.fresh])

\* where remove_pilot returns to
Continue(r) ==
  IF r.after = "insert" THEN {[r EXCEPT !.pc = "insert"]} ELSE AbsentSteps(r)

\* load_vatsim_data and the timestamp test
IngestFetch(maxStamp, maxPilots, maxIters) ==
  /\ ing.pc = "fetch"
  /\ ing.iter < maxIters
  /\ \/ /\ ing' = [ing EXCEPT !.iter = @ + 1, !.stale = FALSE]
        /\ written' = {"vatsim_data_load_time_sec"}
        /\ UNCHANGED metrics
     \/ \E d \in [ts : 1..maxStamp, pcount : 0..maxPilots] :
          LET stale == d.ts <= ing.data_updated_at IN
          IF IsNewer(d.ts, ing.data_updated_at)
            THEN /\ ing' \in PilotSteps([ing EXCEPT !.data_updated_at = d.ts, !.ts = d.ts,
                                                    !.left = d.pcount, !.seen = NoneSeen,
                                                    !.fresh = {},
                                                    !.grouped = 0, !.stale = stale])
                 /\ metrics' = [metrics EXCEPT !.vatsim_data_timestamp = d.ts]
                 /\ written' = {"vatsim_data_load_time_sec", "vatsim_data_timestamp"}
            ELSE /\ ing' = [ing EXCEPT !.pc = "counters", !.stale = stale]
                 /\ UNCHANGED metrics
                 /\ written' = {"vatsim_data_load_time_sec"}
  /\ UNCHANGED <<refVars, now, pilots, pilots2d, pilots_po, fixed, firs, trackVars, wxVars, sessVars>>

\* remove_pilot: pilots_po.remove(callsign)
IngestRemovePo ==
  /\ ing.pc = "rm_po"
  /\ LET po == pilots_po[ing.cur.callsign] IN
       /\ pilots_po' = [pilots_po EXCEPT ![ing.cur.callsign] = NoPo]
       /\ IF po.present
            THEN ing' = [ing EXCEPT !.pc = "rm_tree", !.po = po]
            ELSE ing' \in Continue(ing)
  /\ written' = {}
  /\ UNCHANGED <<refVars, now, pilots, pilots2d, fixed, firs, metrics, trackVars, wxVars, sessVars>>

\* remove_pilot: pilots2d.remove(&po)
IngestRemoveTree ==
  /\ ing.pc = "rm_tree"
  /\ pilots2d' = TreeRemove(pilots2d, ing.po)
  /\ ing' = [ing EXCEPT !.pc = "rm_map"]
  /\ written' = {}
  /\ UNCHANGED <<refVars, now, pilots, pilots_po, fixed, firs, metrics, trackVars, wxVars, sessVars>>

\* remove_pilot: pilots.remove(callsign)
IngestRemoveMap ==
  /\ ing.pc = "rm_map"
  /\ pilots' = [pilots EXCEPT ![ing.cur.callsign] = NoPilot]
  /\ ing' \in Continue(ing)
  /\ written' = {}
  /\ UNCHANGED <<refVars, now, pilots2d, pilots_po, fixed, firs, metrics, trackVars, wxVars, sessVars>>

\* one pilot of the snapshot: store_track, the country counter, the three inserts
IngestInsert ==
  /\ ing.pc = "insert"
  /\ LET p == ing.cur
         po == PointObjectOf(p)
         n == TrackFileOf(p.callsign)
         o == Opened(n)
         e == [v |-> p.position, ts |-> ing.ts]
     IN /\ files' = IF o.err # "ok" THEN files
                                     ELSE [files EXCEPT ![n] = AppendEntry(o.file, e, now)]
        /\ pilots2d' = TreeInsert(pilots2d, po)
        /\ pilots_po' = [pilots_po EXCEPT ![p.callsign] = po]
        /\ pilots' = [pilots EXCEPT ![p.callsign] = [present |-> TRUE, pos |-> p.position]]
        /\ ing' \in PilotSteps([ing EXCEPT
                                  !.fresh = @ \cup {p.callsign},
                                  !.grouped = IF Country(p.position) # "" THEN @ + 1 ELSE @])
  /\ written' = {}
  /\ UNCHANGED <<refVars, now, hist, created, ret, fixed, firs, metrics, wxVars, sessVars>>

\* the end of the pilot phase: pilots_callsigns and the pilot metrics
IngestPilotMetrics ==
  /\ ing.pc = "pilot_metrics"
  /\ ing' = [ing EXCEPT !.pc = "controllers", !.pilots_callsigns = ing.fresh,
                        !.seen = NoneSeen, !.fresh = {}]
  /\ metrics' = IF ing.grouped > 0
                  THEN [metrics EXCEPT !.pilots_online = ing.grouped]
                  ELSE metrics
  /\ written' = {"processing_time_sec"} \cup
                (IF ing.grouped > 0 THEN {"vatsim_objects_online"} ELSE {})
  /\ UNCHANGED <<refVars, now, pilots, pilots2d, pilots_po, fixed, firs, trackVars, wxVars, sessVars>>

\* FixedData::set_airport_controller
SetAirportController(fx, c, ts) ==
  [fx EXCEPT ![CtrlAirport(c)].controllers[CtrlFacility(c)] = [cs |-> c, lu |-> ts]]

\* FixedData::reset_airport_controller
ResetAirportController(fx, c) ==
  [fx EXCEPT ![CtrlAirport(c)].controllers[CtrlFacility(c)] = NoCtrl]

\* FixedData::set_fir_controller
SetFirController(fr, c, ts) ==
  [f \in WorldFirs |->
     IF f \in CtrlFirs(c)
       THEN [x \in DOMAIN fr[f] \cup {c} |-> IF x = c THEN [cs |-> c, lu |-> ts] ELSE fr[f][x]]
       ELSE fr[f]]

\* FixedData::reset_fir_controller
ResetFirController(fr, c) ==
  [f \in WorldFirs |->
     IF f \in CtrlFirs(c) THEN [x \in DOMAIN fr[f] \ {c} |-> fr[f][x]] ELSE fr[f]]

\* the loop over data.controllers: the controllers of airports
RECURSIVE SetControllers(_, _, _)
SetControllers(fx, cs, ts) ==
  IF cs = <<>> THEN fx
  ELSE IF CtrlFacility(Head(cs)) = "radar" THEN SetControllers(fx, Tail(cs), ts)
  ELSE SetControllers(SetAirportController(fx, Head(cs), ts), Tail(cs), ts)

\* the loop over data.controllers: the radar controllers
RECURSIVE SetFirControllers(_, _, _)
SetFirControllers(fr, cs, ts) ==
  IF cs = <<>> THEN fr
  ELSE IF CtrlFacility(Head(cs)) = "radar"
    THEN SetFirControllers(SetFirController(fr, Head(cs), ts), Tail(cs), ts)
    ELSE SetFirControllers(fr, Tail(cs), ts)

\* the loop over the controllers of the previous iteration that are gone
RECURSIVE ResetControllers(_, _)
ResetControllers(fx, S) ==
  IF S = {} THEN fx
  ELSE LET c == CHOOSE x \in S : TRUE
       IN IF CtrlFacility(c) = "radar" THEN ResetControllers(fx, S \ {c})
          ELSE ResetControllers(ResetAirportController(fx, c), S \ {c})

\* the same loop, the radar controllers
RECURSIVE ResetFirControllers(_, _)
ResetFirControllers(fr, S) ==
  IF S = {} THEN fr
  ELSE LET c == CHOOSE x \in S : TRUE
       IN IF CtrlFacility(c) = "radar"
            THEN ResetFirControllers(ResetFirController(fr, c), S \ {c})
            ELSE ResetFirControllers(fr, S \ {c})

\* FixedData::set_airport_weather for the airports whose get returned an observation
SetAirportWeather(fx, wx) ==
  [a \in Airports |-> IF wx[a] # 0 THEN [fx[a] EXCEPT !.wx = wx[a]] ELSE fx[a]]

\* the controllers of a snapshot, in any order
ControllerLists ==
  {<<>>} \cup {<<c>> : c \in Controllers}
         \cup {<<c, d>> : <<c, d>> \in {x \in Controllers \X Controllers : x[1] # x[2]}}

\* a radar controller whose code set_fir_controller cannot slice
Slices(cs) == {i \in 1..Len(cs) : CtrlFacility(cs[i]) = "radar" /\ SliceFails(cs[i])}
\* the controllers of the list that are assigned before the task panics
Assigned(cs) ==
  IF Slices(cs) = {} THEN cs
  ELSE SubSeq(cs, 1, (CHOOSE i \in Slices(cs) : \A j \in Slices(cs) : i <= j) - 1)

\* the controller phase under the write lock of the reference data: the
\* controllers of the snapshot (drawn here, where they are first read) are
\* assigned, then preload and get are called for the controlled airports; get
\* returns an observation or nothing.  A panic of set_fir_controller ends the
\* task of the loop with the controllers before it assigned.
IngestControllers(lists) ==
  /\ ing.pc = "controllers"
  /\ \E cs \in lists :
       LET byCtrl == SetControllers(fixed, Assigned(cs), ing.ts)
           controlled_arpt ==
             {CtrlAirport(cs[i]) : i \in {j \in 1..Len(cs) : CtrlFacility(cs[j]) # "radar"}}
       IN IF Slices(cs) # {}
            THEN /\ fixed' = byCtrl
                 /\ firs' = SetFirControllers(firs, Assigned(cs), ing.ts)
                 /\ ing' = [ing EXCEPT !.pc = "panic",
                                       !.fresh_controllers =
                                         {cs[i] : i \in 1..Len(Assigned(cs)) + 1}]
            ELSE /\ \E wx \in [Airports -> {0} \cup WxValues] :
                      /\ \A a \in Airports \ controlled_arpt : wx[a] = 0
                      /\ fixed' = SetAirportWeather(byCtrl, wx)
                 /\ firs' = SetFirControllers(firs, cs, ing.ts)
                 /\ ing' = [ing EXCEPT !.pc = "reset",
                                       !.fresh_controllers = {cs[i] : i \in 1..Len(cs)},
                                       !.grouped = Len(cs)]
  /\ written' = {}
  /\ UNCHANGED <<refVars, now, pilots, pilots2d, pilots_po, metrics, trackVars, wxVars, sessVars>>

\* the controllers of the previous iteration that are not in this one are reset
IngestResetControllers ==
  /\ ing.pc = "reset"
  /\ fixed' = ResetControllers(fixed, ing.controllers \ ing.fresh_controllers)
  /\ firs' = ResetFirControllers(firs, ing.controllers \ ing.fresh_controllers)
  /\ ing' = [ing EXCEPT !.pc = "ctrl_metrics", !.controllers = ing.fresh_controllers,
                        !.fresh_controllers = {}]
  /\ written' = {}
  /\ UNCHANGED <<refVars, now, pilots, pilots2d, pilots_po, metrics, trackVars, wxVars, sessVars>>

\* the controller metrics
IngestControllerMetrics ==
  /\ ing.pc = "ctrl_metrics"
  /\ ing' = [ing EXCEPT !.pc = "counters", !.grouped = 0]
  /\ metrics' = IF ing.grouped > 0
                  THEN [metrics EXCEPT !.controllers_online = ing.grouped]
                  ELSE metrics
  /\ written' = {"processing_time_sec"} \cup
                (IF ing.grouped > 0 THEN {"vatsim_objects_online"} ELSE {})
  /\ UNCHANGED <<refVars, now, pilots, pilots2d, pilots_po, fixed, firs, trackVars, wxVars, sessVars>>

\* the counters of the track store are fetched and recorded, or the fetch fails
IngestCounters ==
  /\ ing.pc = "counters"
  /\ ing' = [ing EXCEPT !.pc = "cleanup"]
  /\ \/ LET ok == CollectTrackFiles(files)
        IN /\ metrics' = [metrics EXCEPT !.tracks = Cardinality(ok),
                                         !.trackpoints = SumCounts(files, ok)]
           /\ written' = {"database_objects_count", "database_objects_count_fetch_time_sec"}
     \/ /\ UNCHANGED metrics
        /\ written' = {}
  /\ UNCHANGED <<refVars, now, pilots, pilots2d, pilots_po, fixed, firs, trackVars, wxVars, sessVars>>

\* the cleanup countdown (a u8) and Store::cleanup.  `cleanup -= 1` at 0
\* panics in a debug build and wraps to 255 in a release build.
IngestCleanup ==
  /\ ing.pc = "cleanup"
  /\ IF ing.cleanup = 0
       THEN /\ \/ ing' = [ing EXCEPT !.pc = "panic"]
               \/ ing' = [ing EXCEPT !.pc = "sleep", !.cleanup = U8Max]
            /\ UNCHANGED files
       ELSE IF ing.cleanup - 1 # 0
         THEN /\ ing' = [ing EXCEPT !.pc = "sleep", !.cleanup = @ - 1]
              /\ UNCHANGED files
         ELSE \/ LET gone == {n \in CollectTrackFiles(files) : TooOld(files[n], now)}
                 IN /\ files' = [n \in FileNames |-> IF n \in gone THEN NoFile ELSE files[n]]
                    /\ ing' = [ing EXCEPT !.pc = "sleep", !.cleanup = CLEANUP_EVERY_X_ITER]
              \/ /\ ing' = [ing EXCEPT !.pc = "sleep", !.cleanup = 0]
                 /\ UNCHANGED files
  /\ written' = {}
  /\ UNCHANGED <<refVars, now, hist, created, ret, pilots, pilots2d, pilots_po, fixed, firs, metrics, wxVars, sessVars>>

\* sleep(poll_period)
IngestSleep ==
  /\ ing.pc = "sleep"
  /\ ing' = [ing EXCEPT !.pc = "fetch", !.iter = @ + 1, !.stale = FALSE]
  /\ now' = now + PollPeriod
  /\ written' = {}
  /\ UNCHANGED <<refVars, pilots, pilots2d, pilots_po, fixed, firs, metrics, trackVars, wxVars, sessVars>>

----------------------------------------------------------------------------
(* Session diff: src/src/service/calc.rs *)

\* the callsigns of the controllers of a FIR
FirControllers == {"LON_CTR"}
AirportIds == {"EGLL:LHR", "EGKK:LGW"}
FirIds == {"EGTT", "EGPX"}

\* Option<Controller>: None, or a controller with its last_updated
SomeCtrl(c, lu) == [cs |-> c, lu |-> lu]

\* impl PartialEq for Controller: every field but last_updated
ControllerEq(c, d) == c.cs = d.cs

\* a faulty equality that takes two pilots of one callsign for equal
PilotEqByCallsign(p, q) == p.callsign = q.callsign

\* derive(PartialEq) for Pilot: every field
PilotEq(p, q) == p = q

\* derive(PartialEq) for Airport: every field, the controllers by ControllerEq
AirportEq(a, b) ==
  /\ a.id = b.id
  /\ a.wx = b.wx
  /\ \A f \in Facilities : ControllerEq(a.controllers[f], b.controllers[f])

\* derive(PartialEq) for FIR: every field, the controllers by ControllerEq
FirEq(a, b) ==
  /\ a.icao = b.icao
  /\ DOMAIN a.controllers = DOMAIN b.controllers
  /\ \A c \in DOMAIN a.controllers : ControllerEq(a.controllers[c], b.controllers[c])

\* HashMap::new, HashMap::insert, HashMap::remove of the difference
EmptyMap == [k \in {} |-> 0]
MapInsert(map, k, v) == [x \in DOMAIN map \cup {k} |-> IF x = k THEN v ELSE map[x]]
\* a faulty retain that drops nothing
MapRetainAll(map, keys) == map
\* HashMap::retain of the keys of the current result
MapRetain(map, keys) == [x \in DOMAIN map \cap keys |-> map[x]]

\* calc_pilots: the loop over the pilots
RECURSIVE CalcPilotsLoop(_, _, _)
CalcPilotsLoop(ps, prev, set) ==
  IF ps = <<>> THEN [prev |-> prev, set |-> set]
  ELSE LET pilot == Head(ps)
       IN IF pilot.callsign \in DOMAIN prev /\ PilotEq(prev[pilot.callsign], pilot)
            THEN CalcPilotsLoop(Tail(ps), prev, set)
            ELSE CalcPilotsLoop(Tail(ps), MapInsert(prev, pilot.callsign, pilot),
                                Append(set, pilot))

\* calc_pilots
CalcPilots(ps, prev) ==
  LET r == CalcPilotsLoop(ps, prev, <<>>)
      keys == {ps[i].callsign : i \in 1..Len(ps)}
  IN [set |-> r.set,
      delete |-> {r.prev[k] : k \in DOMAIN r.prev \ keys},
      prev |-> MapRetain(r.prev, keys)]

\* calc_airports: the loop over the airports, keyed by compound_id
RECURSIVE CalcAirportsLoop(_, _, _)
CalcAirportsLoop(as, prev, set) ==
  IF as = <<>> THEN [prev |-> prev, set |-> set]
  ELSE LET arpt == Head(as)
       IN IF arpt.id \in DOMAIN prev /\ AirportEq(prev[arpt.id], arpt)
            THEN CalcAirportsLoop(Tail(as), prev, set)
            ELSE CalcAirportsLoop(Tail(as), MapInsert(prev, arpt.id, arpt),
                                  Append(set, arpt))

\* calc_airports
CalcAirports(as, prev) ==
  LET r == CalcAirportsLoop(as, prev, <<>>)
      keys == {as[i].id : i \in 1..Len(as)}
  IN [set |-> r.set,
      delete |-> {r.prev[k] : k \in DOMAIN r.prev \ keys},
      prev |-> MapRetain(r.prev, keys)]

\* calc_firs: the loop over the FIRs, keyed by icao
RECURSIVE CalcFirsLoop(_, _, _)
CalcFirsLoop(fs, prev, set) ==
  IF fs = <<>> THEN [prev |-> prev, set |-> set]
  ELSE LET fir == Head(fs)
       IN IF fir.icao \in DOMAIN prev /\ FirEq(prev[fir.icao], fir)
            THEN CalcFirsLoop(Tail(fs), prev, set)
            ELSE CalcFirsLoop(Tail(fs), MapInsert(prev, fir.icao, fir),
                              Append(set, fir))

\* calc_firs
CalcFirs(fs, prev) ==
  LET r == CalcFirsLoop(fs, prev, <<>>)
      keys == {fs[i].icao : i \in 1..Len(fs)}
  IN [set |-> r.set,
      delete |-> {r.prev[k] : k \in DOMAIN r.prev \ keys},
      prev |-> MapRetain(r.prev, keys)]

\* the key of an entity of a kind
KeyOf(kind, x) ==
  IF kind = "pilots" THEN x.callsign ELSE IF kind = "airports" THEN x.id ELSE x.icao

\* the results a session hands to the diff: pilots, airports, FIRs
PilotResults == [callsign : Callsigns, position : Points]
CtrlStamps == {1, 2}
TowerSlots == {NoCtrl} \cup {SomeCtrl("EGLL_TWR", lu) : lu \in CtrlStamps}
AirportResults ==
  [id : AirportIds, controllers : [Facilities -> TowerSlots], wx : {0} \cup WxValues]
FirResults ==
  [icao : FirIds,
   controllers : {EmptyMap} \cup {[c \in FirControllers |-> SomeCtrl(c, lu)] : lu \in CtrlStamps}]
ResultsOf(kind) ==
  IF kind = "pilots" THEN PilotResults
  ELSE IF kind = "airports" THEN AirportResults ELSE FirResults

\* the lists of at most n entities of a kind; a query returns an entity of
\* its index once
RECURSIVE ResultLists(_, _)
ResultLists(kind, n) ==
  IF n = 0 THEN {<<>>}
  ELSE LET shorter == ResultLists(kind, n - 1)
       IN shorter \cup
          {Append(y[1], y[2]) : y \in
             {z \in shorter \X ResultsOf(kind) :
                \A i \in 1..Len(z[1]) : KeyOf(kind, z[1][i]) # KeyOf(kind, z[2])}}

Kinds == {"pilots", "airports", "firs"}

IdleCalc(kind) ==
  [kind |-> kind, cur |-> <<>>, before |-> EmptyMap, prev |-> EmptyMap,
   set |-> <<>>, delete |-> {}, done |-> FALSE]

\* one diff of a session: the current result against the retained map
CalcTick(maxLen) ==
  /\ \E cur \in ResultLists(calc.kind, maxLen) :
       LET r == IF calc.kind = "pilots" THEN CalcPilots(cur, calc.prev)
                ELSE IF calc.kind = "airports" THEN CalcAirports(cur, calc.prev)
                ELSE CalcFirs(cur, calc.prev)
       IN calc' = [calc EXCEPT !.cur = cur, !.before = calc.prev, !.prev = r.prev,
                               !.set = r.set, !.delete = r.delete, !.done = TRUE]
  /\ UNCHANGED <<refVars, now, lee, sess, rx, client, trackVars, wxVars, ingVars>>

----------------------------------------------------------------------------
(* Filter language: src/src/lee/, src/src/service/filter.rs *)

\* a query is written as its lexemes, the pieces between white space
IdentLexemes == {"callsign", "lat", "alt", "foo"}
OperatorLexemes == {"==", "!=", "=~", "!~", "<", "<=", ">", ">="}
IntegerLexemes == {"1", "99999999999999999999"}
FloatLexemes == {"1.5"}
StringLexemes == {"\"AAL1\""}
\* ALLOWED_FIELDS: the fields of a pilot a condition may name
ALLOWED_FIELDS ==
  {"callsign", "name", "alt", "gs", "lat", "lng", "aircraft", "arrival", "departure",
   "rules"}
\* string literals for the rules field: two that name flight rules, one that
\* names none, and one that is no regular expression
RulesLexemes == {"\"ifr\"", "\"V\"", "\"x\"", "\"(\""}
\* read_string: the text between the quotes
StrOf(x) ==
  IF x = "\"AAL1\"" THEN "AAL1"
  ELSE IF x = "\"ifr\"" THEN "ifr"
  ELSE IF x = "\"V\"" THEN "V"
  ELSE IF x = "\"x\"" THEN "x"
  ELSE "("
AndLexemes == {"AND", "and"}
OrLexemes == {"OR"}
IllegalLexemes == {"&"}
Lexemes ==
  IdentLexemes \cup OperatorLexemes \cup IntegerLexemes \cup FloatLexemes \cup StringLexemes
    \cup AndLexemes \cup OrLexemes \cup {"(", ")"} \cup IllegalLexemes

\* Lexer::parse, one token: its kind and its src
Token(x) ==
  IF x \in AndLexemes THEN [kind |-> "And", src |-> x]
  ELSE IF x \in OrLexemes THEN [kind |-> "Or", src |-> x]
  ELSE IF x \in IdentLexemes \cup ALLOWED_FIELDS THEN [kind |-> "Ident", src |-> x]
  ELSE IF x \in IntegerLexemes THEN [kind |-> "Integer", src |-> x]
  ELSE IF x \in FloatLexemes THEN [kind |-> "Float", src |-> x]
  ELSE IF x \in StringLexemes \cup RulesLexemes THEN [kind |-> "String", src |-> StrOf(x)]
  ELSE IF x = "==" THEN [kind |-> "Equals", src |-> x]
  ELSE IF x = "!=" THEN [kind |-> "NotEquals", src |-> x]
  ELSE IF x = "=~" THEN [kind |-> "Matches", src |-> x]
  ELSE IF x = "!~" THEN [kind |-> "NotMatches", src |-> x]
  ELSE IF x = "<" THEN [kind |-> "Less", src |-> x]
  ELSE IF x = "<=" THEN [kind |-> "LessOrEqual", src |-> x]
  ELSE IF x = ">" THEN [kind |-> "Greater", src |-> x]
  ELSE IF x = ">=" THEN [kind |-> "GreaterOrEqual", src |-> x]
  ELSE IF x = "(" THEN [kind |-> "LeftBrace", src |-> x]
  ELSE IF x = ")" THEN [kind |-> "RightBrace", src |-> x]
  ELSE [kind |-> "Illegal", src |-> x]

\* Lexer::parse: tokens up to the first illegal one; EOF when the source is
\* read to its end
RECURSIVE LexFrom(_, _, _)
LexFrom(query, i, tokens) ==
  IF i > Len(query) THEN Append(tokens, [kind |-> "EOF", src |-> ""])
  ELSE LET t == Token(query[i])
       IN IF t.kind = "Illegal"
            THEN IF i = Len(query)
                   THEN tokens \o <<t, [kind |-> "EOF", src |-> ""]>>
                   ELSE Append(tokens, t)
            ELSE LexFrom(query, i + 1, Append(tokens, t))

Lexer(query) == LexFrom(query, 1, <<>>)

Fail(e) == [ok |-> FALSE, err |-> e]

OperatorKinds ==
  {"Equals", "NotEquals", "Matches", "NotMatches", "Less", "Greater", "LessOrEqual",
   "GreaterOrEqual"}

\* parse_operator
ParseOperator(tf, idx) ==
  IF idx > Len(tf) THEN Fail("UnexpectedEOS")
  ELSE IF tf[idx].kind \in OperatorKinds
    THEN [ok |-> TRUE, operator |-> tf[idx].kind, idx |-> idx + 1]
    ELSE Fail("UnexpectedTokenType")

\* str::parse::<i64> and str::parse::<f64>, in tenths
ParseI64(src) == IF src = "1" THEN [ok |-> TRUE, num |-> 10] ELSE [ok |-> FALSE, num |-> 0]
ParseF64(src) == [ok |-> TRUE, num |-> 15]

\* parse_value
ParseValue(tf, idx) ==
  IF idx > Len(tf) THEN Fail("UnexpectedEOS")
  ELSE LET token == tf[idx]
       IN IF token.kind = "Integer"
            THEN IF ParseI64(token.src).ok
                   THEN [ok |-> TRUE, idx |-> idx + 1,
                         value |-> [type |-> "integer", num |-> ParseI64(token.src).num,
                                    str |-> ""]]
                   ELSE Fail("ConvertError")
          ELSE IF token.kind = "Float"
            THEN [ok |-> TRUE, idx |-> idx + 1,
                  value |-> [type |-> "float", num |-> ParseF64(token.src).num, str |-> ""]]
          ELSE IF token.kind = "String"
            THEN [ok |-> TRUE, idx |-> idx + 1,
                  value |-> [type |-> "string", num |-> 0, str |-> token.src]]
          ELSE Fail("UnexpectedEOS")

\* a faulty rule that lets any value follow any operator
TypeRuleNone(operator, value) == TRUE

\* parse_condition: the value types an operator takes
TypeRule(operator, value) ==
  IF operator \in {"Matches", "NotMatches"} THEN value.type = "string"
  ELSE IF operator \in {"Equals", "NotEquals"} THEN TRUE
  ELSE value.type \in {"integer", "float"}

\* parse_condition
ParseCondition(tf, idx) ==
  IF idx > Len(tf) THEN Fail("UnexpectedEOS")
  ELSE IF tf[idx].kind # "Ident" THEN Fail("UnexpectedTokenType")
  ELSE LET operator == ParseOperator(tf, idx + 1)
       IN IF ~operator.ok THEN operator
          ELSE LET value == ParseValue(tf, operator.idx)
               IN IF ~value.ok THEN value
                  ELSE IF ~TypeRule(operator.operator, value.value)
                    THEN Fail("InvalidValueType")
                    ELSE [ok |-> TRUE, idx |-> value.idx,
                          cond |-> [ident |-> tf[idx].src, operator |-> operator.operator,
                                    value |-> value.value]]

NoExpr == [none |-> TRUE]

\* a faulty combination that groups the left operand with the first operand
\* of the right expression
CombineLeft(left, operator, right) ==
  IF right.operator = "None"
    THEN [left |-> left, operator |-> operator, right |-> right]
    ELSE [left |-> [kind |-> "Expression",
                    expr |-> [left |-> left, operator |-> operator,
                              right |-> [left |-> right.left, operator |-> "None",
                                         right |-> NoExpr]]],
          operator |-> right.operator, right |-> right.right]

\* parse_expression: the expression of a left operand, an operator and the
\* expression parsed from the rest
Combine(left, operator, right) == [left |-> left, operator |-> operator, right |-> right]

\* parse_expression
RECURSIVE ParseExpression(_, _)
ParseExpression(tf, idx) ==
  IF idx > Len(tf) THEN Fail("UnexpectedEOS")
  ELSE LET token == tf[idx]
           left ==
             IF token.kind = "LeftBrace"
               THEN LET exp == ParseExpression(tf, idx + 1)
                    IN IF ~exp.ok THEN exp
                       ELSE IF exp.idx > Len(tf) THEN Fail("UnexpectedEOS")
                       ELSE IF tf[exp.idx].kind = "RightBrace"
                         THEN [ok |-> TRUE, idx |-> exp.idx + 1,
                               left |-> [kind |-> "Expression", expr |-> exp.expr]]
                         ELSE Fail("UnexpectedTokenType")
             ELSE IF token.kind = "Ident"
               THEN LET cond == ParseCondition(tf, idx)
                    IN IF ~cond.ok THEN cond
                       ELSE [ok |-> TRUE, idx |-> cond.idx,
                             left |-> [kind |-> "Condition", cond |-> cond.cond]]
             ELSE Fail("UnexpectedTokenType")
       IN IF ~left.ok THEN left
          ELSE IF left.idx <= Len(tf) /\ tf[left.idx].kind \in {"And", "Or"}
            THEN LET right == ParseExpression(tf, left.idx + 1)
                 IN IF ~right.ok THEN right
                    ELSE [ok |-> TRUE, idx |-> right.idx,
                          expr |-> Combine(left.left, tf[left.idx].kind, right.expr)]
            ELSE [ok |-> TRUE, idx |-> left.idx,
                  expr |-> [left |-> left.left, operator |-> "None", right |-> NoExpr]]

\* parse
Parse(tf) ==
  LET exp == ParseExpression(tf, 1)
  IN IF ~exp.ok THEN exp
     ELSE IF exp.idx > Len(tf) THEN Fail("UnexpectedEOS")
     ELSE IF tf[exp.idx].kind = "EOF" THEN [ok |-> TRUE, expr |-> exp.expr]
     ELSE Fail("UnexpectedTokenType")

\* make_expr
MakeExpr(query) == Parse(Lexer(query))

\* str::to_lowercase for the strings of the model
ToLowercase(v) == IF v = "V" THEN "v" ELSE IF v = "AAL1" THEN "aal1" ELSE v

\* compile_filter: a condition on one of the ten fields becomes a predicate on
\* a pilot, the value of a rules condition normalised to I or V; any other
\* condition is refused with the reason
CompileFilter(cond) ==
  IF cond.ident = "rules"
    THEN IF cond.value.type = "string"
           THEN LET v == ToLowercase(cond.value.str)
                IN IF v \in {"i", "ifr"}
                     THEN [ok |-> TRUE, filter |-> [cond EXCEPT !.value.str = "I"]]
                   ELSE IF v \in {"v", "vfr"}
                     THEN [ok |-> TRUE, filter |-> [cond EXCEPT !.value.str = "V"]]
                   ELSE Fail("invalid rules value")
           ELSE Fail("invalid rules value type")
  ELSE IF cond.ident \in ALLOWED_FIELDS
    THEN [ok |-> TRUE, filter |-> cond]
    ELSE Fail("not a valid field to query")

\* a faulty compile that leaves the right operand as it was parsed
RECURSIVE CompileLeftOnly(_)
CompileLeftOnly(expr) ==
  LET left ==
        IF expr.left.kind = "Expression"
          THEN LET e == CompileLeftOnly(expr.left.expr)
               IN IF ~e.ok THEN e
                  ELSE [ok |-> TRUE, left |-> [kind |-> "Expression", expr |-> e.expr]]
        ELSE IF expr.left.kind = "Condition"
          THEN LET c == CompileFilter(expr.left.cond)
               IN IF ~c.ok THEN c
                  ELSE [ok |-> TRUE, left |-> [kind |-> "CompiledFilter", cond |-> c.filter]]
        ELSE [ok |-> TRUE, left |-> expr.left]
  IN IF ~left.ok THEN left
     ELSE [ok |-> TRUE, expr |-> [expr EXCEPT !.left = left.left]]

\* Expression::compile
RECURSIVE Compile(_)
Compile(expr) ==
  LET left ==
        IF expr.left.kind = "Expression"
          THEN LET e == Compile(expr.left.expr)
               IN IF ~e.ok THEN e
                  ELSE [ok |-> TRUE, left |-> [kind |-> "Expression", expr |-> e.expr]]
        ELSE IF expr.left.kind = "Condition"
          THEN LET c == CompileFilter(expr.left.cond)
               IN IF ~c.ok THEN c
                  ELSE [ok |-> TRUE, left |-> [kind |-> "CompiledFilter", cond |-> c.filter]]
        ELSE [ok |-> TRUE, left |-> expr.left]
  IN IF ~left.ok THEN left
     ELSE IF expr.operator = "None"
       THEN [ok |-> TRUE, expr |-> [expr EXCEPT !.left = left.left]]
       ELSE LET right == Compile(expr.right)
            IN IF ~right.ok THEN right
               ELSE [ok |-> TRUE,
                     expr |-> [expr EXCEPT !.left = left.left, !.right = right.expr]]

\* Regex::is_match for the patterns of the model, none of which is a part of
\* another callsign
RegexMatch(pattern, str) == pattern = str
\* Regex::from_str: an open brace alone is no regular expression
RegexValid(pattern) == pattern # "("

\* Value::eval_str
EvalStr(value, ext_val, operator) ==
  IF value.type # "string" THEN FALSE
  ELSE IF operator = "Matches"
    THEN IF RegexValid(value.str) THEN RegexMatch(value.str, ext_val) ELSE FALSE
  ELSE IF operator = "NotMatches"
    THEN IF RegexValid(value.str) THEN ~RegexMatch(value.str, ext_val) ELSE TRUE
  ELSE IF operator = "Equals" THEN ext_val = value.str
  ELSE IF operator = "NotEquals" THEN ext_val # value.str
  ELSE FALSE

\* Value::eval_i64 and Value::eval_f64, the number in tenths
EvalNum(value, ext_val, operator) ==
  IF value.type = "string" THEN FALSE
  ELSE IF operator = "Equals" THEN ext_val = value.num
  ELSE IF operator = "NotEquals" THEN ext_val # value.num
  ELSE IF operator = "Less" THEN ext_val < value.num
  ELSE IF operator = "LessOrEqual" THEN ext_val <= value.num
  ELSE IF operator = "Greater" THEN ext_val > value.num
  ELSE IF operator = "GreaterOrEqual" THEN ext_val >= value.num
  ELSE FALSE

NoPlan == [some |-> FALSE]

\* the closures compile_filter returns; a condition on the flight plan is
\* false of a pilot without one
EvalFilter(cond, pilot) ==
  IF cond.ident = "rules"
    THEN IF pilot.flight_plan.some
           THEN EvalStr(cond.value, pilot.flight_plan.flight_rules, cond.operator)
           ELSE FALSE
  ELSE IF cond.ident = "callsign" THEN EvalStr(cond.value, pilot.callsign, cond.operator)
  ELSE IF cond.ident = "name" THEN EvalStr(cond.value, pilot.name, cond.operator)
  ELSE IF cond.ident = "alt" THEN EvalNum(cond.value, 10 * pilot.altitude, cond.operator)
  ELSE IF cond.ident = "gs" THEN EvalNum(cond.value, 10 * pilot.groundspeed, cond.operator)
  ELSE IF cond.ident = "lat" THEN EvalNum(cond.value, 10 * pilot.position, cond.operator)
  ELSE IF cond.ident = "lng" THEN EvalNum(cond.value, 10 * pilot.lng, cond.operator)
  ELSE IF cond.ident = "aircraft"
    THEN IF pilot.flight_plan.some
           THEN EvalStr(cond.value, pilot.flight_plan.aircraft, cond.operator)
           ELSE FALSE
  ELSE IF cond.ident = "arrival"
    THEN IF pilot.flight_plan.some
           THEN EvalStr(cond.value, pilot.flight_plan.arrival, cond.operator)
           ELSE FALSE
  ELSE IF pilot.flight_plan.some
    THEN EvalStr(cond.value, pilot.flight_plan.departure, cond.operator)
    ELSE FALSE

\* Expression::evaluate
RECURSIVE Evaluate(_, _)
Evaluate(expr, model) ==
  LET left_result ==
        IF expr.left.kind = "CompiledFilter" THEN EvalFilter(expr.left.cond, model)
        ELSE IF expr.left.kind = "Expression" THEN Evaluate(expr.left.expr, model)
        ELSE FALSE
  IN IF expr.operator = "None" THEN left_result
     ELSE IF expr.operator = "And" THEN left_result /\ Evaluate(expr.right, model)
     ELSE left_result \/ Evaluate(expr.right, model)

NoFilter == [some |-> FALSE, expr |-> NoExpr]

\* a faulty filter message that keeps an expression that does not compile
MakeFilterParsedOnly(flt) ==
  IF flt # <<>>
    THEN LET Made(res) == IF res.ok THEN [some |-> TRUE, expr |-> res.expr] ELSE NoFilter
         IN Made(MakeExpr(flt))
    ELSE NoFilter

\* map_updates, ServiceRequest::Filter: the filter of the session after the message
MakeFilter(flt) ==
  IF flt # <<>>
    THEN \* expr.compile(&cb).map(|_| expr).ok()
         LET Compiled(c) == IF c.ok THEN [some |-> TRUE, expr |-> c.expr] ELSE NoFilter
             Made(res) == IF res.ok THEN Compiled(Compile(res.expr)) ELSE NoFilter
         IN Made(MakeExpr(flt))
    ELSE NoFilter

----------------------------------------------------------------------------
\* the flight plans of the model: none, and one under each flight rule
FlightPlans ==
  {NoPlan}
    \cup {[some |-> TRUE, flight_rules |-> r, aircraft |-> "B738", arrival |-> "EGLL",
           departure |-> "KJFK"] : r \in {"I", "V"}}

\* a pilot as the filter sees it
LeePilots ==
  [callsign : Callsigns, name : {"AAL1"}, position : Points, lng : {1}, altitude : {0, 2},
   groundspeed : {1}, flight_plan : FlightPlans]

IdleLee(query) ==
  [pc |-> "new", query |-> query, res |-> Fail(""), compiled |-> Fail(""),
   pilot |-> [callsign |-> "", name |-> "", position |-> 0, lng |-> 0, altitude |-> 0,
              groundspeed |-> 0, flight_plan |-> NoPlan],
   verdict |-> FALSE]

\* make_expr(&flt)
LeeMakeExpr ==
  /\ lee.pc = "new"
  /\ lee' = [lee EXCEPT !.pc = "parsed", !.res = MakeExpr(lee.query)]
  /\ UNCHANGED <<refVars, now, calc, sess, rx, client, trackVars, wxVars, ingVars>>

\* expr.compile(&cb)
LeeCompile ==
  /\ lee.pc = "parsed"
  /\ lee.res.ok
  /\ lee' = [lee EXCEPT !.pc = "compiled", !.compiled = Compile(lee.res.expr)]
  /\ UNCHANGED <<refVars, now, calc, sess, rx, client, trackVars, wxVars, ingVars>>

\* f.evaluate(pilot)
LeeEvaluate ==
  /\ lee.pc \in {"compiled", "evaluated"}
  /\ lee.compiled.ok
  /\ \E pilot \in LeePilots :
       lee' = [lee EXCEPT !.pc = "evaluated", !.pilot = pilot,
                          !.verdict = Evaluate(lee.compiled.expr, pilot)]
  /\ UNCHANGED <<refVars, now, calc, sess, rx, client, trackVars, wxVars, ingVars>>

----------------------------------------------------------------------------
(* Session engine: src/src/service/mod.rs, CamdenService::map_updates *)

MIN_ZOOM == 3
\* the period of the deltas and the sleep of one loop iteration, in milliseconds
UpdatePeriod == 5000
LoopSleep == 50

\* the bounds a client sends: a viewport at zoom 5 that holds position 1 only,
\* and the same viewport at zoom 1
BoundsSent == {"view", "world"}
Zoom(b) == IF b = "view" THEN 5 ELSE 1
\* Rect::envelopes and locate_in_envelope: the points inside the rectangle
InRect(pt) == pt = 1

\* the filter strings a client sends: a filter on the callsign, an empty
\* string, a string that does not parse, one that does not compile
SessionQueries ==
  {<<"callsign", "==", "\"AAL1\"">>, <<>>, <<"callsign", "==">>, <<"foo", "==", "1">>}

Msg(type, b, flt, flag, id) ==
  [type |-> type, bounds |-> b, flt |-> flt, flag |-> flag, id |-> id]

\* MapUpdatesRequest: a request of one of five kinds, or none
SessionMessages ==
  {Msg("Bounds", b, <<>>, FALSE, "") : b \in BoundsSent}
    \cup {Msg("Filter", "", q, FALSE, "") : q \in SessionQueries}
    \cup {Msg("ShowWx", "", <<>>, TRUE, "")}
    \cup {Msg("SubscribeId", "", <<>>, FALSE, "BAW2")}
    \cup {Msg("UnsubscribeId", "", <<>>, FALSE, "BAW2")}
    \cup {Msg("None", "", <<>>, FALSE, "")}

\* a set as a vector, in some order
RECURSIVE SeqOf(_)
SeqOf(S) ==
  IF S = {} THEN <<>>
  ELSE LET x == CHOOSE y \in S : TRUE IN <<x>> \o SeqOf(S \ {x})

PilotOf(c) == [callsign |-> c, position |-> pilots[c].pos]

\* a faulty query that forgets the subscribed pilots
GetPilotsLocatedOnly(subscribed_ids) ==
  SeqOf({PilotOf(c) : c \in {d \in Callsigns :
           /\ \E pt \in Points : InRect(pt) /\ pilots2d[<<d, pt>>] > 0
           /\ pilots[d].present}})

\* Manager::get_pilots: the pilots of the tree entries inside the rectangle
\* that the pilot map holds, then the subscribed pilots the map holds
GetPilots(subscribed_ids) ==
  LET located == {c \in Callsigns :
                    /\ \E pt \in Points : InRect(pt) /\ pilots2d[<<c, pt>>] > 0
                    /\ pilots[c].present}
      subs == {c \in subscribed_ids \ located : pilots[c].present}
  IN SeqOf({PilotOf(c) : c \in located}) \o SeqOf({PilotOf(c) : c \in subs})

\* Manager::get_all_pilots
GetAllPilots == SeqOf({PilotOf(c) : c \in {d \in Callsigns : pilots[d].present}})

\* Airport::compound_id
CompoundId(a) == "EGLL:LHR"

\* ControllerSet::is_empty
ControllersEmpty(cset) == \A f \in Facilities : cset[f] = NoCtrl

\* Manager::get_airports and Manager::get_all_airports; the airport of the
\* model lies inside the viewport
GetAirports(show_uncontrolled_wx) ==
  SeqOf({[id |-> CompoundId(a), controllers |-> fixed[a].controllers, wx |-> fixed[a].wx] :
           a \in {x \in Airports :
                    \/ ~ControllersEmpty(fixed[x].controllers)
                    \/ show_uncontrolled_wx /\ fixed[x].wx # 0}})

\* Manager::get_firs and Manager::get_all_firs; the FIR of the model meets
\* the viewport
GetFirs ==
  SeqOf({[icao |-> f, controllers |-> firs[f]] : f \in {x \in WorldFirs : firs[x] # EmptyMap}})

\* pilots.retain(..): a subscribed pilot and a pilot the filter accepts stay
RECURSIVE Retain(_, _, _)
Retain(ps, subscriptions, f) ==
  IF ps = <<>> THEN <<>>
  ELSE IF Head(ps).callsign \in subscriptions \/ Evaluate(f, Head(ps))
    THEN <<Head(ps)>> \o Retain(Tail(ps), subscriptions, f)
    ELSE Retain(Tail(ps), subscriptions, f)

\* impl From<Controller> for camden::Controller: last_updated in milliseconds
WireController(c) == [cs |-> c.cs, last_updated |-> 1000 * c.lu]
\* impl From<Pilot> for camden::Pilot
WirePilot(p) == [callsign |-> p.callsign, position |-> p.position]
\* impl From<Airport> for camden::Airport
WireAirport(a) ==
  [icao |-> "EGLL", iata |-> "LHR",
   controllers |-> [f \in Facilities |-> WireController(a.controllers[f])], wx |-> a.wx]
\* impl From<FIR> for camden::Fir
WireFir(f) ==
  [icao |-> f.icao, controllers |-> [c \in DOMAIN f.controllers |-> WireController(f.controllers[c])]]

\* the key under which a client keeps a received object
WireKey(kind, x) ==
  IF kind = "pilots" THEN x.callsign
  ELSE IF kind = "airports" THEN x.icao \o ":" \o x.iata ELSE x.icao

Wire(kind, x) ==
  IF kind = "pilots" THEN WirePilot(x)
  ELSE IF kind = "airports" THEN WireAirport(x) ELSE WireFir(x)

\* the client applies a Set batch: every object replaces the one of its key
RECURSIVE ApplySet(_, _, _)
ApplySet(view, kind, batch) ==
  IF batch = <<>> THEN view
  ELSE LET x == Wire(kind, Head(batch))
       IN ApplySet(MapInsert(view, WireKey(kind, x), x), kind, Tail(batch))

\* the client applies a Delete batch: the objects of its keys are dropped
ApplyDelete(view, kind, batch) ==
  MapRetain(view, DOMAIN view \ {WireKey(kind, Wire(kind, x)) : x \in batch})

\* a list of entities as a map by key
AsMap(kind, list) ==
  [k \in {KeyOf(kind, list[i]) : i \in 1..Len(list)} |->
     LET i == CHOOSE j \in 1..Len(list) : KeyOf(kind, list[j]) = k IN list[i]]

NoBatch == [set |-> <<>>, delete |-> {}]

\* the locals of map_updates when the stream starts, and the ghosts of the session
NewSession ==
  [pc |-> "recv", bounds |-> "none", filter |-> NoFilter, show_wx |-> FALSE,
   subscriptions |-> {}, next_update |-> 0, dt |-> 0,
   pilots_state |-> EmptyMap, airports_state |-> EmptyMap, firs_state |-> EmptyMap,
   iters |-> 0, sent |-> 0,
   \* ghosts: the kind of the message taken in this iteration, whether the
   \* deltas were due without it, the time of the last computation, whether a
   \* message was taken since, the pilots the map held at the last query, the
   \* results and the batches of the last computation
   got |-> "", early |-> FALSE, last_tick |-> 0, ticks |-> 0, msg_since |-> FALSE,
   ticked |-> FALSE,
   online |-> {}, res_pilots |-> EmptyMap, res_airports |-> EmptyMap,
   res_firs |-> EmptyMap, batch |-> NoBatch]

\* a faulty reset that leaves next_update as it is
OnMessageKeep(next_update, t) == next_update

\* map_updates: any message sets next_update to the time of its receipt
OnMessage(next_update, t) == t

\* a faulty test that is always true
DueAlways(dt, next_update) == TRUE

\* map_updates: dt >= next_update
Due(dt, next_update) == dt >= next_update

\* the client writes a message to the stream; proxy_requests passes it to the
\* channel of the session
ClientSend(messages, maxMessages, maxPending) ==
  /\ sess.pc = "recv"
  /\ ~closed
  /\ sess.sent < maxMessages
  /\ Len(rx) < maxPending
  /\ \E m \in messages : rx' = Append(rx, m)
  /\ sess' = [sess EXCEPT !.sent = @ + 1]
  /\ UNCHANGED <<refVars, now, client, calc, lee, trackVars, wxVars, ingVars>>

\* the settings after a message
Accept(r, m) ==
  IF m.type = "Filter" THEN [r EXCEPT !.filter = MakeFilter(m.flt)]
  ELSE IF m.type = "Bounds" THEN [r EXCEPT !.bounds = m.bounds]
  ELSE IF m.type = "ShowWx" THEN [r EXCEPT !.show_wx = m.flag]
  ELSE IF m.type = "SubscribeId" THEN [r EXCEPT !.subscriptions = @ \cup {m.id}]
  ELSE IF m.type = "UnsubscribeId" THEN [r EXCEPT !.subscriptions = @ \ {m.id}]
  ELSE r

\* the client ends its stream: stream.next() gives None, proxy_requests
\* returns and drops the sender of the channel
ClientClose ==
  /\ sess.pc = "recv"
  /\ ~closed
  /\ closed' = TRUE
  /\ UNCHANGED <<now, trackVars, wxVars, appVars, prs, lookup, geo, lockVars, apt, stored>>

\* a faulty try_recv that never says that the sender is gone
TryRecvNeverDisconnected(queue, ended) ==
  IF queue # <<>> THEN "Ok" ELSE "Empty"

\* Receiver::try_recv: a message of the channel, or the channel is empty, or
\* it is empty and its sender is gone
TryRecv(queue, ended) ==
  IF queue # <<>> THEN "Ok" ELSE IF ended THEN "Disconnected" ELSE "Empty"

\* one try_recv, then the test whether deltas are due; the loop ends when
\* the channel is disconnected
SessionRecv ==
  /\ sess.pc = "recv"
  /\ IF TryRecv(rx, closed) = "Disconnected"
       THEN /\ sess' = [sess EXCEPT !.pc = "done", !.got = "", !.early = FALSE]
            /\ rx' = rx
       ELSE \E r1 \in {IF TryRecv(rx, closed) = "Ok"
                         THEN [Accept(sess, Head(rx)) EXCEPT
                                 !.next_update = OnMessage(sess.next_update, now),
                                 !.got = Head(rx).type, !.msg_since = TRUE,
                                 !.early = now < sess.next_update]
                         ELSE [sess EXCEPT !.got = "", !.early = FALSE]} :
              /\ rx' = IF rx # <<>> THEN Tail(rx) ELSE rx
              /\ sess' = IF r1.bounds # "none" /\ Due(now, r1.next_update)
                           THEN [r1 EXCEPT !.pc = "pilots", !.dt = now]
                           ELSE [r1 EXCEPT !.pc = "sleep"]
  /\ UNCHANGED <<refVars, now, client, calc, lee, trackVars, wxVars, ingVars>>

\* the pilots: query, filter, diff and the two batches
SessionPilots ==
  /\ sess.pc = "pilots"
  /\ LET no_bounds == Zoom(sess.bounds) < MIN_ZOOM
         found == IF no_bounds THEN GetAllPilots ELSE GetPilots(sess.subscriptions)
         ps == IF sess.filter.some
                 THEN Retain(found, sess.subscriptions, sess.filter.expr)
                 ELSE found
         d == CalcPilots(ps, sess.pilots_state)
     IN /\ sess' = [sess EXCEPT !.pc = "airports", !.pilots_state = d.prev,
                                !.online = {c \in Callsigns : pilots[c].present},
                                !.res_pilots = AsMap("pilots", ps),
                                !.batch = [set |-> d.set, delete |-> d.delete]]
        /\ client' = [client EXCEPT
                        !.pilots = ApplyDelete(ApplySet(@, "pilots", d.set), "pilots", d.delete)]
  /\ UNCHANGED <<refVars, now, rx, calc, lee, trackVars, wxVars, ingVars>>

\* the airports
SessionAirports ==
  /\ sess.pc = "airports"
  /\ LET as == GetAirports(sess.show_wx)
         d == CalcAirports(as, sess.airports_state)
     IN /\ sess' = [sess EXCEPT !.pc = "firs", !.airports_state = d.prev,
                                !.res_airports = AsMap("airports", as),
                                !.batch = [set |-> d.set, delete |-> d.delete]]
        /\ client' = [client EXCEPT
                        !.airports = ApplyDelete(ApplySet(@, "airports", d.set), "airports",
                                                 d.delete)]
  /\ UNCHANGED <<refVars, now, rx, calc, lee, trackVars, wxVars, ingVars>>

\* the FIRs, and the time of the next deltas
SessionFirs ==
  /\ sess.pc = "firs"
  /\ LET fs == GetFirs
         d == CalcFirs(fs, sess.firs_state)
     IN /\ sess' = [sess EXCEPT !.pc = "sleep", !.firs_state = d.prev,
                                !.next_update = sess.dt + UpdatePeriod,
                                !.res_firs = AsMap("firs", fs),
                                !.batch = [set |-> d.set, delete |-> d.delete],
                                !.last_tick = sess.dt, !.ticks = 1, !.msg_since = FALSE,
                                !.ticked = TRUE]
        /\ client' = [client EXCEPT
                        !.firs = ApplyDelete(ApplySet(@, "firs", d.set), "firs", d.delete)]
  /\ UNCHANGED <<refVars, now, rx, calc, lee, trackVars, wxVars, ingVars>>

\* sleep(50 ms): the loop goes on after 50 ms, or later; at most maxIters
\* iterations are taken, and as many more as the channel can hold messages,
\* and one, after the stream has ended
SessionSleep(maxIters) ==
  /\ sess.pc = "sleep"
  /\ sess.iters < maxIters \/ (closed /\ sess.iters < maxIters + MaxStreamPending + 1)
  /\ \E d \in {LoopSleep, UpdatePeriod} : now' = now + d
  /\ sess' = [sess EXCEPT !.pc = "recv", !.iters = @ + 1, !.got = "", !.early = FALSE,
                          !.online = {}, !.res_pilots = EmptyMap, !.res_airports = EmptyMap,
                          !.res_firs = EmptyMap, !.batch = NoBatch, !.ticked = FALSE]
  /\ UNCHANGED <<refVars, rx, client, calc, lee, trackVars, wxVars, ingVars>>

----------------------------------------------------------------------------
(* Reference data: src/src/fixed/parser.rs *)

\* a line of the source is written as its pieces: a blank, a brace, a bar, or
\* a word that holds none of them; a field of the model is one word or empty
SectionLines ==
  {<<"[", "Countries", "]">>, <<"[", "Airports", "]">>, <<"[", "FIRs", "]">>,
   <<"[", "UIRs", "]">>, <<" ", "[", "IDL", "]">>}
\* a header of no section, a brace alone, and a header closed by another brace
OddHeaders == {<<"[", "Foo", "]">>, <<"[">>, <<"[", "Airports", ")">>}
CountryLines == {<<"UK", "|", "EG", "|", "Control">>, <<"UK", "|", "EG">>}
AirportLines ==
  {<<"EGLL", "|", "Heathrow", "|", "51", "|", "0", "|", "LHR", "|", "EGTT", "|", "0">>,
   <<"EGLL", "|", "Heathrow", "|", "north", "|", "0", "|", "LHR", "|", "EGTT", "|", "0">>}
FirLines ==
  {<<"EGTT", "|", "London", "|", "EGTT", "|">>, <<"ZZZZ", "|", "Nowhere", "|", "ZZ", "|", "ZZZZ">>}
UirLines == {<<"EURW", "|", "Europe", "|", "EGTT,EGPX">>}
SrcLines ==
  {<<>>, <<";", "x">>} \cup SectionLines \cup OddHeaders \cup CountryLines \cup AirportLines
    \cup FirLines \cup UirLines

\* every source of at most n lines
RECURSIVE Sources(_)
Sources(n) ==
  IF n = 0 THEN {<<>>}
  ELSE LET shorter == Sources(n - 1)
       IN shorter \cup {Append(src, l) : src \in shorter, l \in SrcLines}

\* str::trim
RECURSIVE Trim(_)
Trim(line) ==
  IF line = <<>> THEN line
  ELSE IF Head(line) = " " THEN Trim(Tail(line))
  ELSE IF line[Len(line)] = " " THEN Trim(SubSeq(line, 1, Len(line) - 1))
  ELSE line

\* str::split('|'): the fields between the bars, each the pieces it holds
RECURSIVE SplitFrom(_, _, _)
SplitFrom(line, tokens, cur) ==
  IF line = <<>> THEN Append(tokens, cur)
  ELSE IF Head(line) = "|" THEN SplitFrom(Tail(line), Append(tokens, cur), <<>>)
  ELSE SplitFrom(Tail(line), tokens, Append(cur, Head(line)))

Split(line) == SplitFrom(line, <<>>, <<>>)

\* the text of a field
Text(token) == IF token = <<>> THEN "" ELSE token[1]

\* str::parse::<f64> of a coordinate
ParseCoord(text) ==
  IF text = "51" THEN [ok |-> TRUE, num |-> 51]
  ELSE IF text = "0" THEN [ok |-> TRUE, num |-> 0]
  ELSE [ok |-> FALSE, num |-> 0]

\* tokens[2].split(',')
SplitComma(text) == IF text = "EGTT,EGPX" THEN <<"EGTT", "EGPX">> ELSE <<text>>

\* load_boundaries: the regions that have boundaries
Bdrs == {"EGTT"}
\* load_runways: the airports that have runways
RunwayMap == {"EGLL"}

ParserIdle ==
  [state |-> "Idle", pc |-> "loop", countries |-> <<>>, airports |-> <<>>, firs |-> <<>>,
   uirs |-> <<>>, runway_map |-> RunwayMap]

\* &line[1..line.len() - 1]: the slice between the first and the last byte;
\* of a line of one byte it starts after its end
SectionInner(line) ==
  IF Len(line) = 1 THEN [ok |-> FALSE, name |-> <<>>]
  ELSE [ok |-> TRUE, name |-> SubSeq(line, 2, Len(line) - 1)]

\* parse: one round of the loop over the lines
ParseStep(st, raw) ==
  LET line == Trim(raw)
  IN IF line = <<>> \/ Head(line) = ";" THEN st
     ELSE IF Head(line) = "["
       THEN LET section == SectionInner(line)
            IN IF ~section.ok THEN [st EXCEPT !.pc = "panicked"]
               ELSE IF section.name = <<"Countries">> THEN [st EXCEPT !.state = "ReadCountries"]
               ELSE IF section.name = <<"Airports">> THEN [st EXCEPT !.state = "ReadAirports"]
               ELSE IF section.name = <<"FIRs">> THEN [st EXCEPT !.state = "ReadFIRs"]
               ELSE IF section.name = <<"UIRs">> THEN [st EXCEPT !.state = "ReadUIRs"]
               ELSE IF section.name = <<"IDL">> THEN [st EXCEPT !.pc = "break"]
               ELSE st
     ELSE LET tokens == Split(line)
          IN IF st.state = "Idle" THEN st
             ELSE IF st.state = "ReadCountries"
               THEN IF Len(tokens) # 3 THEN st
                    ELSE [st EXCEPT !.countries =
                            Append(@, [name |-> Text(tokens[1]), prefix |-> Text(tokens[2]),
                                       control_name |-> Text(tokens[3])])]
             ELSE IF st.state = "ReadAirports"
               THEN IF Len(tokens) # 7 THEN st
                    ELSE IF ~ParseCoord(Text(tokens[3])).ok THEN st
                    ELSE IF ~ParseCoord(Text(tokens[4])).ok THEN st
                    ELSE LET icao == Text(tokens[1])
                         IN [st EXCEPT
                               !.runway_map = @ \ {icao},
                               !.airports =
                                 Append(@, [icao |-> icao, iata |-> Text(tokens[5]),
                                            name |-> Text(tokens[2]),
                                            lat |-> ParseCoord(Text(tokens[3])).num,
                                            lng |-> ParseCoord(Text(tokens[4])).num,
                                            fir_id |-> Text(tokens[6]),
                                            is_pseudo |-> Text(tokens[7]) = "1",
                                            runways |-> icao \in st.runway_map])]
             ELSE IF st.state = "ReadFIRs"
               THEN IF Len(tokens) # 4 THEN st
                    ELSE LET b_id == IF Text(tokens[4]) = "" THEN Text(tokens[1])
                                     ELSE Text(tokens[4])
                         IN IF b_id \in Bdrs
                              THEN [st EXCEPT !.firs =
                                      Append(@, [icao |-> Text(tokens[1]),
                                                 name |-> Text(tokens[2]),
                                                 prefix |-> Text(tokens[3]),
                                                 boundaries |-> b_id])]
                              ELSE st
             ELSE IF Len(tokens) # 3 THEN st
               ELSE [st EXCEPT !.uirs =
                       Append(@, [icao |-> Text(tokens[1]), name |-> Text(tokens[2]),
                                  fir_ids |-> SplitComma(Text(tokens[3]))])]

\* FixedData::new: the lists of the data
DataOf(st) ==
  [countries |-> st.countries, airports |-> st.airports, firs |-> st.firs, uirs |-> st.uirs]

\* parse, as a whole: the data it returns, or none when it panics
RECURSIVE ParseFrom(_, _, _)
ParseFrom(src, i, st) ==
  IF st.pc = "panicked" THEN [ok |-> FALSE]
  ELSE IF st.pc = "break" \/ i > Len(src) THEN [ok |-> TRUE, data |-> DataOf(st)]
  ELSE ParseFrom(src, i + 1, ParseStep(st, src[i]))

ParseSrc(src) == ParseFrom(src, 1, ParserIdle)

NoData == [countries |-> <<>>, airports |-> <<>>, firs |-> <<>>, uirs |-> <<>>]
IdlePrs(src) == [src |-> src, i |-> 1, st |-> ParserIdle, done |-> FALSE, data |-> NoData]

\* for line in src.lines()
ParseLine ==
  /\ ~prs.done
  /\ prs.st.pc = "loop"
  /\ prs.i <= Len(prs.src)
  /\ prs' = [prs EXCEPT !.st = ParseStep(prs.st, prs.src[prs.i]), !.i = prs.i + 1]
  /\ UNCHANGED <<now, trackVars, wxVars, appVars, lookup, geo, lockVars, closed, apt, stored>>

\* Ok(FixedData::new(countries, airports, firs, uirs, geonames))
ParseReturn ==
  /\ ~prs.done
  /\ prs.st.pc = "break" \/ (prs.st.pc = "loop" /\ prs.i > Len(prs.src))
  /\ prs' = [prs EXCEPT !.done = TRUE, !.data = DataOf(prs.st)]
  /\ UNCHANGED <<now, trackVars, wxVars, appVars, lookup, geo, lockVars, closed, apt, stored>>

----------------------------------------------------------------------------
(* Reference data lookups: src/src/fixed/data.rs *)

\* the codes of the reference data: one is the ICAO code, the prefix, the IATA
\* code or the FIR id of several objects at once
Codes == {"EGTT", "EGLL"}
\* the codes asked for: the code of a callsign may be longer than four
\* characters, or known to nothing
Queries == Codes \cup {"EGLLX", "ZZZZ"}

RefFirs == [icao : Codes, prefix : Codes]
RefAirports == [icao : {"EGLL"}, iata : Codes \cup {""}, fir_id : {"", "EGTT"}]
RefUirs == [icao : Codes, fir_ids : {<<"EGTT">>, <<"EGLL", "EGTT">>}]

\* every list of at most n elements of S
RECURSIVE ListsOf(_, _)
ListsOf(S, n) ==
  IF n = 0 THEN {<<>>}
  ELSE LET shorter == ListsOf(S, n - 1)
       IN shorter \cup {Append(l, x) : l \in shorter, x \in S}

\* HashMap::insert in a loop over a list, then HashMap::get: the index of the
\* last element with the key, 0 for None
LastIndex(keys, k) ==
  LET found == {i \in 1..Len(keys) : keys[i] = k}
  IN IF found = {} THEN 0 ELSE CHOOSE i \in found : \A j \in found : j <= i

\* arpt_icao_idx, values.push(idx), then indices[0]: the index of the first
\* element with the key
FirstIndex(keys, k) ==
  LET found == {i \in 1..Len(keys) : keys[i] = k}
  IN IF found = {} THEN 0 ELSE CHOOSE i \in found : \A j \in found : i <= j

\* the keys of a list of records
IcaoKeys(list) == [i \in 1..Len(list) |-> list[i].icao]
PrefixKeys(list) == [i \in 1..Len(list) |-> list[i].prefix]
IataKeys(list) == [i \in 1..Len(list) |-> list[i].iata]

\* find_fir_idx_by_icao
FindFirIdxByIcao(d, query) == LastIndex(IcaoKeys(d.firs), query)
\* find_fir_idx_by_prefix
FindFirIdxByPrefix(d, query) == LastIndex(PrefixKeys(d.firs), query)

\* find_fir_idx_by_icao(..).or_else(|| find_fir_idx_by_prefix(..))
FindFirIdx(d, query) ==
  IF FindFirIdxByIcao(d, query) # 0 THEN FindFirIdxByIcao(d, query)
  ELSE FindFirIdxByPrefix(d, query)

\* &code[0..4] of a code longer than four bytes
Truncate4(code) == IF code = "EGLLX" THEN "EGLL" ELSE code

\* a faulty lookup that asks the ICAO index before the IATA index
FindAirportIdxIcaoFirst(d, code) ==
  LET c == Truncate4(code)
  IN IF c # "" /\ FirstIndex(IcaoKeys(d.airports), c) # 0
       THEN FirstIndex(IcaoKeys(d.airports), c)
       ELSE IF c # "" THEN LastIndex(IataKeys(d.airports), c) ELSE 0

\* find_airport_idx; an airport without IATA or ICAO code is not in that index
FindAirportIdx(d, code) ==
  LET c == Truncate4(code)
  IN IF c # "" /\ LastIndex(IataKeys(d.airports), c) # 0
       THEN LastIndex(IataKeys(d.airports), c)
       ELSE IF c # "" THEN FirstIndex(IcaoKeys(d.airports), c) ELSE 0

\* the loop over uir.fir_ids
RECURSIVE UirIndices(_, _)
UirIndices(d, fir_ids) ==
  IF fir_ids = <<>> THEN <<>>
  ELSE LET idx == FindFirIdx(d, Head(fir_ids))
       IN (IF idx # 0 THEN <<idx>> ELSE <<>>) \o UirIndices(d, Tail(fir_ids))

\* find_fir_indices
FindFirIndices(d, query) ==
  IF FindFirIdx(d, query) # 0 THEN <<FindFirIdx(d, query)>>
  ELSE LET arpt == FindAirportIdx(d, query)
           uir == LastIndex(IcaoKeys(d.uirs), query)
       IN IF /\ arpt # 0
             /\ d.airports[arpt].fir_id # ""
             /\ FindFirIdx(d, d.airports[arpt].fir_id) # 0
            THEN <<FindFirIdx(d, d.airports[arpt].fir_id)>>
          ELSE IF uir # 0 THEN UirIndices(d, d.uirs[uir].fir_ids)
          ELSE <<>>

NoFixedData == [firs |-> <<>>, airports |-> <<>>, uirs |-> <<>>]
IdleLookup(d, query) == [data |-> d, query |-> query, done |-> FALSE, result |-> <<>>]

\* find_firs(code)
FindFirs ==
  /\ ~lookup.done
  /\ lookup' = [lookup EXCEPT !.done = TRUE,
                              !.result = FindFirIndices(lookup.data, lookup.query)]
  /\ UNCHANGED <<now, trackVars, wxVars, appVars, prs, geo, lockVars, closed, apt, stored>>

----------------------------------------------------------------------------
(* Viewport geometry: src/src/types.rs *)

\* a degree, in the unit of the coordinates of this section
Deg == 20000
\* 179.9999 and -179.9999 degrees
MAX_LNG == 180 * Deg - 2
MIN_LNG == 2 - 180 * Deg

\* Rect::new(min_lng, min_lat, max_lng, max_lat)
RectNew(min_lng, min_lat, max_lng, max_lat) ==
  [south_west |-> [lat |-> min_lat, lng |-> min_lng],
   north_east |-> [lat |-> max_lat, lng |-> max_lng]]

Lower(a, b) == IF a <= b THEN a ELSE b
Upper(a, b) == IF a <= b THEN b ELSE a

\* AABB::from_corners: the lower and the upper corner, coordinate by coordinate
FromCorners(p1, p2) ==
  [lower |-> [lat |-> Lower(p1.lat, p2.lat), lng |-> Lower(p1.lng, p2.lng)],
   upper |-> [lat |-> Upper(p1.lat, p2.lat), lng |-> Upper(p1.lng, p2.lng)]]

\* Rect::envelopes
Envelopes(rect) ==
  IF rect.south_west.lng > 0 /\ rect.north_east.lng < 0
    THEN <<FromCorners([lat |-> rect.south_west.lat, lng |-> rect.south_west.lng],
                       [lat |-> rect.north_east.lat, lng |-> MAX_LNG]),
           FromCorners([lat |-> rect.south_west.lat, lng |-> MIN_LNG],
                       [lat |-> rect.north_east.lat, lng |-> rect.north_east.lng])>>
    ELSE <<FromCorners(rect.south_west, rect.north_east)>>

\* AABB::contains_point, what locate_in_envelope asks of a point object
ContainsPoint(env, p) ==
  /\ env.lower.lat <= p.lat /\ p.lat <= env.upper.lat
  /\ env.lower.lng <= p.lng /\ p.lng <= env.upper.lng

\* the longitudes of the corners of a viewport, and of a pilot
CornerLngs == {-170 * Deg, -10 * Deg, 0, 10 * Deg, 170 * Deg}
PilotLngs ==
  {-180 * Deg, -175 * Deg, -5 * Deg, 0, 5 * Deg, 175 * Deg, 180 * Deg - 1}

IdleView(rect, point) ==
  [pc |-> "new", rect |-> rect, point |-> point, envs |-> <<>>, found |-> FALSE]

\* rect.envelopes()
ViewEnvelopes ==
  /\ geo.pc = "new"
  /\ geo' = [geo EXCEPT !.pc = "envelopes", !.envs = Envelopes(geo.rect)]
  /\ UNCHANGED <<now, trackVars, wxVars, appVars, prs, lookup, lockVars, closed, apt, stored>>

\* get_pilots: for env in rect.envelopes(), pilots2d.locate_in_envelope(&env)
ViewLocate ==
  /\ geo.pc = "envelopes"
  /\ geo' = [geo EXCEPT !.pc = "located",
                          !.found = \E i \in 1..Len(geo.envs) :
                                      ContainsPoint(geo.envs[i], geo.point)]
  /\ UNCHANGED <<now, trackVars, wxVars, appVars, prs, lookup, lockVars, closed, apt, stored>>

----------------------------------------------------------------------------
(* Manager locks: src/src/manager/mod.rs *)

\* Manager: the fields behind a tokio RwLock
ManagerLocks ==
  {"fixed", "pilots", "pilots2d", "pilots_po", "airports2d", "firs2d", "tracks", "metrics"}
\* WeatherManager: the fields behind a tokio RwLock
WeatherLocks == {"wx_cache", "wx_blacklist"}
LockNames == ManagerLocks \cup WeatherLocks

\* the tasks: Manager::run, the sessions of map_updates, the unary calls
IngestTask == <<"ingest", 0>>
RpcTask == <<"rpc", 0>>
SessionTasks(n) == {<<"session", i>> : i \in 1..n}
LockTasks(n) == {IngestTask, RpcTask} \cup SessionTasks(n)

\* the steps of a task: a lock is asked for and its guard dropped, a call is
\* awaited, the code branches; each names the steps that may follow
Acq(l, m, n) == [kind |-> "acq", lock |-> l, mode |-> m, to |-> {n}]
Rel(l, n) == [kind |-> "rel", lock |-> l, mode |-> "", to |-> {n}]
Net(call, n) == [kind |-> "net", lock |-> call, mode |-> "", to |-> {n}]
Sleep(n) == [kind |-> "sleep", lock |-> "", mode |-> "", to |-> {n}]
Jump(S) == [kind |-> "jump", lock |-> "", mode |-> "", to |-> S]
\* a for loop over a collection: its body once more, or the step after it
For(body, exit) ==
  [kind |-> "for", lock |-> "", mode |-> "", to |-> {body, exit}, body |-> body, exit |-> exit]

\* remove_pilot at step b, returning to nxt: the three guards are taken and
\* dropped one after the other, the last two when the mirror held the callsign
RemovePilotOps(b, nxt) ==
  <<Acq("pilots_po", "w", b + 1), Rel("pilots_po", b + 2), Jump({b + 3, nxt}),
    Acq("pilots2d", "w", b + 4), Rel("pilots2d", b + 5),
    Acq("pilots", "w", b + 6), Rel("pilots", nxt)>>

\* run, one pilot of the snapshot after remove_pilot: the guards of the tree,
\* the mirror, the map and the track store live to the end of the loop body,
\* the read guard of the reference data to the end of its statement
InsertOps(b, nxt) ==
  <<Acq("pilots2d", "w", b + 1), Acq("pilots_po", "w", b + 2), Acq("pilots", "w", b + 3),
    Acq("tracks", "w", b + 4), Acq("fixed", "r", b + 5), Rel("fixed", b + 6),
    Rel("tracks", b + 7), Rel("pilots", b + 8), Rel("pilots_po", b + 9),
    Rel("pilots2d", nxt)>>

\* faulty metrics of a phase that read the reference data first
MetricsOpsFixedFirst(b, nxt) ==
  <<Acq("fixed", "r", b + 1), Acq("metrics", "w", b + 2), Rel("metrics", b + 3),
    Rel("fixed", nxt)>>

\* run, the metrics of a phase: metrics.write(), then fixed.read()
MetricsOps(b, nxt) ==
  <<Acq("metrics", "w", b + 1), Acq("fixed", "r", b + 2), Rel("fixed", b + 3),
    Rel("metrics", nxt)>>

\* a faulty controller phase whose preload sends its request with the cache
\* locked for writing
ControllerOpsCacheLocked(b, nxt) ==
  <<Acq("fixed", "w", b + 1),
    For(b + 2, b + 6),
    Acq("wx_blacklist", "r", b + 3), Rel("wx_blacklist", b + 4),
    Acq("wx_cache", "r", b + 5), Rel("wx_cache", b + 1),
    Jump({b + 11, b + 7}), Acq("wx_cache", "w", b + 8), Net("preload", b + 9),
    Jump({b + 10}), Rel("wx_cache", b + 11),
    For(b + 12, b + 24),
    Acq("wx_cache", "r", b + 13), Rel("wx_cache", b + 14), Jump({b + 11, b + 15}),
    Acq("wx_blacklist", "r", b + 16), Rel("wx_blacklist", b + 17), Jump({b + 11, b + 18}),
    Net("get", b + 19), Jump({b + 11, b + 20, b + 22}),
    Acq("wx_blacklist", "w", b + 21), Rel("wx_blacklist", b + 11),
    Acq("wx_cache", "w", b + 23), Rel("wx_cache", b + 11),
    Rel("fixed", nxt)>>

\* run, the controller phase: fixed.write() lives over the loop of the
\* controllers, wx_manager.preload and every wx_manager.get.
\* preload reads the blacklist and the cache for every location, sends one
\* request for the locations left and then writes the cache; get reads the
\* cache, then the blacklist, sends its request and then writes the
\* blacklist or the cache
ControllerOps(b, nxt) ==
  <<Acq("fixed", "w", b + 1),
    \* preload: for location in locations
    For(b + 2, b + 6),
    Acq("wx_blacklist", "r", b + 3), Rel("wx_blacklist", b + 4),
    Acq("wx_cache", "r", b + 5), Rel("wx_cache", b + 1),
    \* preload: no location left, or the request and its outcome
    Jump({b + 11, b + 7}), Net("preload", b + 8), Jump({b + 11, b + 9}),
    Acq("wx_cache", "w", b + 10), Rel("wx_cache", b + 11),
    \* for every controller of an airport: get
    For(b + 12, b + 24),
    Acq("wx_cache", "r", b + 13), Rel("wx_cache", b + 14), Jump({b + 11, b + 15}),
    Acq("wx_blacklist", "r", b + 16), Rel("wx_blacklist", b + 17), Jump({b + 11, b + 18}),
    Net("get", b + 19), Jump({b + 11, b + 20, b + 22}),
    Acq("wx_blacklist", "w", b + 21), Rel("wx_blacklist", b + 11),
    Acq("wx_cache", "w", b + 23), Rel("wx_cache", b + 11),
    Rel("fixed", nxt)>>

\* Manager::run with setup_fixed_data
IngestOps ==
  <<Net("load_fixed", 2),
    For(3, 5), Acq("airports2d", "w", 4), Rel("airports2d", 2),
    For(6, 8), Acq("firs2d", "w", 7), Rel("firs2d", 5),
    Acq("fixed", "w", 9), Rel("fixed", 10),
    \* 10: loop
    Net("load_vatsim_data", 11), Acq("metrics", "w", 12), Rel("metrics", 13),
    \* 13: no data, data that is not newer, or newer data
    Jump({10, 78, 14}), Acq("metrics", "w", 15), Rel("metrics", 16),
    \* 16: for pilot in data.pilots
    For(17, 34)>>
    \o RemovePilotOps(17, 24) \o InsertOps(24, 16)
    \* 34: for cs in pilots_callsigns.difference(..)
    \o <<For(35, 42)>> \o RemovePilotOps(35, 34)
    \o MetricsOps(42, 46)
    \o ControllerOps(46, 71)
    \* 71: for (cs, ctrl) in controllers.iter()
    \o <<For(72, 74), Acq("fixed", "w", 73), Rel("fixed", 71)>>
    \o MetricsOps(74, 78)
    \* 78: the counters of the track store, then the cleanup
    \o <<Acq("tracks", "r", 79), Rel("tracks", 80), Jump({81, 83}),
         Acq("metrics", "w", 82), Rel("metrics", 83),
         Jump({84, 86}), Acq("tracks", "w", 85), Rel("tracks", 86),
         Sleep(10)>>

\* a faulty get_pilots that takes the map before the tree
GetPilotsOpsMapFirst(b, nxt) ==
  <<Acq("pilots", "r", b + 1), Acq("pilots2d", "r", b + 2), Rel("pilots2d", b + 3),
    Rel("pilots", nxt)>>

\* get_pilots
GetPilotsOps(b, nxt) ==
  <<Acq("pilots2d", "r", b + 1), Acq("pilots", "r", b + 2), Rel("pilots", b + 3),
    Rel("pilots2d", nxt)>>

\* get_airports
GetAirportsOps(b, nxt) ==
  <<Acq("airports2d", "r", b + 1), Acq("fixed", "r", b + 2), Rel("fixed", b + 3),
    Rel("airports2d", nxt)>>

\* get_firs
GetFirsOps(b, nxt) ==
  <<Acq("firs2d", "r", b + 1), Acq("fixed", "r", b + 2), Rel("fixed", b + 3),
    Rel("firs2d", nxt)>>

\* map_updates, one round of the loop: the three queries of a tick, each of
\* the whole data set or of the viewport, and the sleep
SessionOps ==
  <<Jump({2, 4}), Acq("pilots", "r", 3), Rel("pilots", 8)>> \o GetPilotsOps(4, 8)
    \o <<Jump({9, 11}), Acq("fixed", "r", 10), Rel("fixed", 15)>> \o GetAirportsOps(11, 15)
    \o <<Jump({16, 18}), Acq("fixed", "r", 17), Rel("fixed", 22)>> \o GetFirsOps(18, 22)
    \o <<Sleep(1)>>

\* the unary calls: get_pilot, list_pilots, get_airport, get_metrics
RpcOps ==
  <<Jump({2, 7, 9, 11}),
    Acq("pilots", "r", 3), Rel("pilots", 4), Jump({5, 1}),
    Acq("tracks", "r", 6), Rel("tracks", 1),
    Acq("pilots", "r", 8), Rel("pilots", 1),
    Acq("fixed", "r", 10), Rel("fixed", 1),
    Acq("metrics", "r", 12), Rel("metrics", 1)>>

OpsOf(t) == IF t[1] = "ingest" THEN IngestOps ELSE IF t[1] = "rpc" THEN RpcOps ELSE SessionOps
OpAt(t) == OpsOf(t)[proc[t].pc]
\* the one step after a step that does not branch
After(op) == CHOOSE n \in op.to : TRUE

FreeLock == [holders |-> {}, queue |-> <<>>]
IdleProc == [pc |-> 1, held |-> <<>>, waiting |-> FALSE, iters |-> 0]

\* RwLock: the guard can be given at once, nobody waiting before
CanGrant(lk, m) ==
  IF m = "w" THEN lk.holders = {} ELSE \A h \in lk.holders : h[2] = "r"

\* RwLock, as a guard is dropped: the waiters are served first come, first
\* served; a writer waits for every guard to be dropped, and readers behind a
\* waiting writer wait with it
RECURSIVE Wake(_)
Wake(lk) ==
  IF lk.queue = <<>> THEN lk
  ELSE LET h == Head(lk.queue)
       IN IF CanGrant(lk, h[2])
            THEN Wake([holders |-> lk.holders \cup {h}, queue |-> Tail(lk.queue)])
            ELSE lk

\* a task and what it holds after a guard is given to it
Given(p, op) ==
  [p EXCEPT !.pc = After(op), !.held = Append(@, op.lock), !.waiting = FALSE]

\* lock.read().await and lock.write().await: the guard is given, or the task
\* waits in the queue of the lock
Acquire(t) ==
  /\ OpAt(t).kind = "acq"
  /\ ~proc[t].waiting
  /\ LET op == OpAt(t)
         lk == locks[op.lock]
     IN IF lk.queue = <<>> /\ CanGrant(lk, op.mode)
          THEN /\ locks' = [locks EXCEPT ![op.lock].holders = @ \cup {<<t, op.mode>>}]
               /\ proc' = [proc EXCEPT ![t] = Given(@, op)]
          ELSE /\ locks' = [locks EXCEPT ![op.lock].queue = Append(@, <<t, op.mode>>)]
               /\ proc' = [proc EXCEPT ![t].waiting = TRUE]
  /\ UNCHANGED <<now, trackVars, wxVars, appVars, prs, lookup, geo, closed, apt, stored>>

\* a guard is dropped, and the guards that can be given are given
Release(t) ==
  /\ OpAt(t).kind = "rel"
  /\ LET op == OpAt(t)
         lk == locks[op.lock]
         dropped == [lk EXCEPT !.holders = {h \in @ : h[1] # t}]
         woken == Wake(dropped)
         given == {h[1] : h \in woken.holders \ dropped.holders}
     IN /\ locks' = [locks EXCEPT ![op.lock] = woken]
        /\ proc' = [u \in DOMAIN proc |->
                      IF u = t
                        THEN [proc[u] EXCEPT
                                !.pc = After(op),
                                !.held = SelectSeq(@, LAMBDA l : l # op.lock)]
                      ELSE IF u \in given THEN Given(proc[u], OpAt(u))
                      ELSE proc[u]]
  /\ UNCHANGED <<now, trackVars, wxVars, appVars, prs, lookup, geo, closed, apt, stored>>

\* an upstream request or a sleep is awaited and returns
Await(t) ==
  /\ OpAt(t).kind \in {"net", "sleep"}
  /\ proc' = [proc EXCEPT ![t].pc = After(OpAt(t))]
  /\ UNCHANGED <<now, trackVars, wxVars, appVars, prs, lookup, geo, locks, closed, apt, stored>>

\* a for loop takes the next element of its collection, of at most MaxElems,
\* or ends
Iterate(t) ==
  /\ OpAt(t).kind = "for"
  /\ \/ /\ proc[t].iters < MaxElems
        /\ proc' = [proc EXCEPT ![t].pc = OpAt(t).body, ![t].iters = @ + 1]
     \/ proc' = [proc EXCEPT ![t].pc = OpAt(t).exit, ![t].iters = 0]
  /\ UNCHANGED <<now, trackVars, wxVars, appVars, prs, lookup, geo, locks, closed, apt, stored>>

\* the code takes one of its branches
Branch(t) ==
  /\ OpAt(t).kind = "jump"
  /\ \E n \in OpAt(t).to : proc' = [proc EXCEPT ![t].pc = n]
  /\ UNCHANGED <<now, trackVars, wxVars, appVars, prs, lookup, geo, locks, closed, apt, stored>>

----------------------------------------------------------------------------
(* ATIS runways: src/src/atis/runways.rs, src/src/fixed/types.rs *)

\* A text is a sequence of words that white space separates, a word a sequence
\* of pieces: two digits, the letter of a runway side, a word of letters, a
\* special character.  No word of the texts holds a keyword of the expressions
\* behind other letters or before other letters.
TwoDigits == {"09", "18", "27", "36"}
SideLetters == {"L", "R", "C"}
SideWords == {"LEFT", "RIGHT", "CENTER"}
Specials == {",", "."}

\* str::to_uppercase of a piece
ToUppercase(p) ==
  CASE p = "landing" -> "LANDING"
    [] p = "runway" -> "RUNWAY"
    [] p = "takeoff" -> "TAKEOFF"
    [] OTHER -> p

\* SPECIAL.replace_all(text, "") within a word
RECURSIVE DropSpecial(_)
DropSpecial(w) ==
  IF w = <<>> THEN <<>>
  ELSE IF Head(w) \in Specials THEN DropSpecial(Tail(w))
  ELSE <<Head(w)>> \o DropSpecial(Tail(w))

\* WHITESPACE.replace_all(text, " ") and the final trim: no word is empty
RECURSIVE DropEmpty(_)
DropEmpty(t) ==
  IF t = <<>> THEN <<>>
  ELSE IF Head(t) = <<>> THEN DropEmpty(Tail(t))
  ELSE <<Head(t)>> \o DropEmpty(Tail(t))

StartsWithDigit(w) == w # <<>> /\ w[1] \in TwoDigits
EndsWithDigit(w) == w # <<>> /\ w[Len(w)] \in TwoDigits

\* COLLAPSE_NUMS.replace_all(text, "$1$2"): a word that ends with a digit and
\* a word that starts with one become one word; a piece of two digits gives
\* its first digit to the match on its left and its last to the one on its right
RECURSIVE CollapseNums(_)
CollapseNums(t) ==
  IF Len(t) < 2 THEN t
  ELSE IF EndsWithDigit(t[1]) /\ StartsWithDigit(t[2])
    THEN CollapseNums(<<t[1] \o t[2]>> \o SubSeq(t, 3, Len(t)))
    ELSE <<t[1]>> \o CollapseNums(Tail(t))

\* normalize_atis_text
NormalizeAtisText(text, collapse_nums) ==
  LET upper == [i \in 1..Len(text) |-> [j \in 1..Len(text[i]) |-> ToUppercase(text[i][j])]]
      plain == DropEmpty([i \in 1..Len(upper) |-> DropSpecial(upper[i])])
  IN IF collapse_nums THEN CollapseNums(plain) ELSE plain

\* normalize_runway_ident: the white space removed, the first three characters kept
NormalizeRunwayIdent(ident) ==
  IF Len(ident) = 1 THEN ident[1]
  ELSE ident[1] \o (CASE ident[2] = "LEFT" -> "L"
                      [] ident[2] = "RIGHT" -> "R"
                      [] ident[2] = "CENTER" -> "C"
                      [] OTHER -> ident[2])

NoIdent == [ok |-> FALSE, ident |-> <<>>, next |-> 0, whole |-> FALSE]

\* one group of IDENT_EXPR matched at word i: \d{2}(?:[LRC]|\s(?:LEFT|RIGHT|CENTER))?
\* next is the word after the match; whole is false when the match ends inside a word
IdentAt(t, i) ==
  IF i > Len(t) \/ ~StartsWithDigit(t[i]) THEN NoIdent
  ELSE
    LET w == t[i] IN
    IF Len(w) = 1
      THEN IF i < Len(t) /\ Len(t[i + 1]) = 1 /\ t[i + 1][1] \in SideWords
             THEN [ok |-> TRUE, ident |-> <<w[1], t[i + 1][1]>>, next |-> i + 2, whole |-> TRUE]
             ELSE [ok |-> TRUE, ident |-> w, next |-> i + 1, whole |-> TRUE]
    ELSE IF w[2] \in SideLetters
      THEN [ok |-> TRUE, ident |-> <<w[1], w[2]>>, next |-> i + 1, whole |-> Len(w) = 2]
      ELSE [ok |-> TRUE, ident |-> <<w[1]>>, next |-> i + 1, whole |-> FALSE]

NoRun == [ok |-> FALSE, idents |-> <<>>, next |-> 0, whole |-> FALSE]

\* IDENT_EXPR with exactly k of its groups: the later groups follow white
\* space and an optional AND or OR
RECURSIVE IdentRun(_, _, _)
IdentRun(t, i, k) ==
  IF k = 1
    THEN LET a == IdentAt(t, i)
         IN IF a.ok THEN [ok |-> TRUE, idents |-> <<a.ident>>, next |-> a.next, whole |-> a.whole]
            ELSE NoRun
    ELSE LET r == IdentRun(t, i, k - 1) IN
         IF ~r.ok \/ ~r.whole THEN NoRun
         ELSE LET j == IF r.next <= Len(t) /\ t[r.next] \in {<<"AND">>, <<"OR">>}
                         THEN r.next + 1 ELSE r.next
                  a == IdentAt(t, j)
              IN IF a.ok
                   THEN [ok |-> TRUE, idents |-> Append(r.idents, a.ident),
                         next |-> a.next, whole |-> a.whole]
                   ELSE NoRun

MaxIdents == 3

RunwayWords == {<<"RUNWAY">>, <<"RWY">>, <<"RUNWAYS">>, <<"RWYS">>}
ArrivalWords == {<<"APPROACH">>, <<"ARRIVAL">>, <<"LANDING">>, <<"LDG">>}
DepartureWords == {<<"TAKEOFF">>, <<"DEPARTURE">>, <<"DEPARTING">>, <<"DEP">>}

WordIn(t, i, S) == i >= 1 /\ i <= Len(t) /\ t[i] \in S

\* the part of an expression before IDENT_EXPR, matched from word i: the word
\* at which the idents start, 0 when there is no match from i
HeadAt(t, i, e) ==
  CASE e.head = "many" ->
         LET j == CHOOSE j \in i..(Len(t) + 1) :
                    /\ \A m \in i..(j - 1) : t[m] \in e.words
                    /\ ~WordIn(t, j, e.words)
         IN IF j > i /\ WordIn(t, j, RunwayWords) THEN j + 1 ELSE 0
    [] e.head = "one" ->
         IF WordIn(t, i, e.words) /\ WordIn(t, i + 1, RunwayWords) THEN i + 2 ELSE 0
    [] e.head = "runway" ->
         IF WordIn(t, i, RunwayWords) THEN i + 1 ELSE 0
    [] e.head = "in_use" ->
         IF /\ WordIn(t, i, RunwayWords)
            /\ WordIn(t, i + 1, {<<"IN">>})
            /\ WordIn(t, i + 2, {<<"USE">>})
           THEN i + 3 ELSE 0
    [] e.head = "both" ->
         IF /\ WordIn(t, i, ArrivalWords)
            /\ WordIn(t, i + 1, {<<"AND">>})
            /\ WordIn(t, i + 2, DepartureWords)
            /\ WordIn(t, i + 3, RunwayWords)
           THEN i + 4 ELSE 0

\* the part of an expression after IDENT_EXPR, matched after a run of idents
TailAt(t, r, e) ==
  CASE e.tail = "none" -> TRUE
    [] e.tail = "for" ->
         r.whole /\ WordIn(t, r.next, {<<"FOR">>}) /\ WordIn(t, r.next + 1, e.words)
    [] e.tail = "in_use" ->
         r.whole /\ WordIn(t, r.next, {<<"IN">>}) /\ WordIn(t, r.next + 1, {<<"USE">>})

\* the numbers of groups with which expression e matches from word i
MatchesAt(t, i, e) ==
  LET h == HeadAt(t, i, e)
  IN IF h = 0 THEN {}
     ELSE {k \in 1..MaxIdents : IdentRun(t, h, k).ok /\ TailAt(t, IdentRun(t, h, k), e)}

\* Regex::captures: the leftmost match, its optional groups as long as they
\* can be; every group that took part, through normalize_runway_ident
Captures(t, e) ==
  LET starts == {i \in 1..Len(t) : MatchesAt(t, i, e) # {}} IN
  IF starts = {} THEN {}
  ELSE LET i == CHOOSE x \in starts : \A y \in starts : x <= y
           k == CHOOSE x \in MatchesAt(t, i, e) : \A y \in MatchesAt(t, i, e) : x >= y
           r == IdentRun(t, HeadAt(t, i, e), k)
       IN {NormalizeRunwayIdent(r.idents[g]) : g \in 1..k}

ARRIVAL_EXPR ==
  { [head |-> "many", tail |-> "none", words |-> ArrivalWords],
    [head |-> "runway", tail |-> "for", words |-> ArrivalWords],
    [head |-> "runway", tail |-> "in_use", words |-> {}],
    [head |-> "in_use", tail |-> "none", words |-> {}],
    [head |-> "both", tail |-> "none", words |-> {}] }

DEPARTURE_EXPR ==
  { [head |-> "one", tail |-> "none", words |-> DepartureWords],
    [head |-> "runway", tail |-> "for", words |-> {<<"TAKEOFF">>, <<"DEPARTURE">>, <<"DEP">>}],
    [head |-> "runway", tail |-> "in_use", words |-> {}],
    [head |-> "in_use", tail |-> "none", words |-> {}],
    [head |-> "both", tail |-> "none", words |-> {}] }

\* detect_arrivals
DetectArrivals(norm_atis) ==
  IF norm_atis = <<>> THEN {} ELSE UNION {Captures(norm_atis, e) : e \in ARRIVAL_EXPR}

\* detect_departures
DetectDepartures(norm_atis) ==
  IF norm_atis = <<>> THEN {} ELSE UNION {Captures(norm_atis, e) : e \in DEPARTURE_EXPR}

\* the runways of the airport, by ident, as parse_runway creates them
AirportRunways == {"09L", "27", "27R"}
NewRunway == [active_to |-> FALSE, active_lnd |-> FALSE]

\* an airport as FixedData holds it after the load: no controller, no runway active
NoAirport ==
  [atis |-> <<>>, tower |-> FALSE, runways |-> [r \in AirportRunways |-> NewRunway],
   before |-> [r \in AirportRunways |-> NewRunway], sent |-> <<>>, last |-> "none"]

\* Airport::reset_active_runways
ResetActiveRunways(a) == [a EXCEPT !.runways = [r \in AirportRunways |-> NewRunway]]

\* a faulty set_active_runways that keeps the flags of the ATIS before
SetActiveRunwaysOverOld(a) ==
  IF a.atis = <<>> THEN ResetActiveRunways(a)
  ELSE
    LET norm_atis == NormalizeAtisText(a.atis[1], TRUE)
        arrivals == DetectArrivals(norm_atis)
        departures == DetectDepartures(norm_atis)
    IN [a EXCEPT !.runways =
          [r \in AirportRunways |->
             [active_lnd |-> a.runways[r].active_lnd \/ r \in arrivals,
              active_to |-> a.runways[r].active_to \/ r \in departures]]]

\* Airport::set_active_runways: idents that are no runway of the airport are skipped
SetActiveRunways(a) ==
  LET a1 == ResetActiveRunways(a) IN
  IF a1.atis = <<>> THEN a1
  ELSE
    LET norm_atis == NormalizeAtisText(a1.atis[1], TRUE)
        arrivals == DetectArrivals(norm_atis)
        departures == DetectDepartures(norm_atis)
    IN [a1 EXCEPT !.runways =
          [r \in AirportRunways |->
             [active_lnd |-> a1.runways[r].active_lnd \/ r \in arrivals,
              active_to |-> a1.runways[r].active_to \/ r \in departures]]]

\* impl From<Runway> for camden::Runway, the two flags
RunwayToWire(value) == [active_to |-> value.active_to, active_lnd |-> value.active_to]

\* the ATIS texts that controllers send
AtisTexts ==
  { <<>>,
    << <<"INFORMATION">>, <<"A">> >>,
    << <<"landing">>, <<"runway">>, <<"27">> >>,
    << <<"LANDING">>, <<"RUNWAY">>, <<"09", "L">>, <<"TAKEOFF">>, <<"RUNWAY">>, <<"27">> >>,
    << <<"DEPARTURE">>, <<"RUNWAY">>, <<"27">>, <<"RIGHT", ",">> >>,
    << <<"RUNWAYS">>, <<"IN">>, <<"USE">>, <<"09", "L">>, <<"AND">>, <<"27">>, <<"27", "R">>, <<"18">> >>,
    << <<"RUNWAY">>, <<"27">>, <<"OR">>, <<"27", "R">>, <<"FOR">>, <<"LANDING">> >>,
    << <<"RWY">>, <<"09", "L">>, <<"IN">>, <<"USE">>, <<"WIND">>, <<"27">>, <<"09">> >>,
    << <<"ARRIVAL">>, <<"AND">>, <<"DEP">>, <<"RWY">>, <<"27">>, <<"09">> >>,
    << <<"LDG">>, <<"RUNWAY">>, <<"36">>, <<"DEP">>, <<"RUNWAY">>, <<"09", "L">>, <<"FOR">>, <<"TAKEOFF">> >> }

\* FixedData::set_airport_controller for a controller of facility ATIS
SetAtisController(text) ==
  /\ apt' = [SetActiveRunways([apt EXCEPT !.atis = <<text>>])
               EXCEPT !.before = apt.runways, !.last = "set_atis"]
  /\ UNCHANGED <<now, trackVars, wxVars, appVars, prs, lookup, geo, lockVars, closed, stored>>

\* FixedData::reset_airport_controller for a controller of facility ATIS
ResetAtisController ==
  /\ apt.last # "none"
  /\ apt' = [ResetActiveRunways([apt EXCEPT !.atis = <<>>])
               EXCEPT !.before = apt.runways, !.last = "reset_atis"]
  /\ UNCHANGED <<now, trackVars, wxVars, appVars, prs, lookup, geo, lockVars, closed, stored>>

\* FixedData::set_airport_controller for a controller of facility Tower
SetTowerController ==
  /\ apt' = [apt EXCEPT !.tower = TRUE, !.before = apt.runways, !.last = "set_tower"]
  /\ UNCHANGED <<now, trackVars, wxVars, appVars, prs, lookup, geo, lockVars, closed, stored>>

\* FixedData::reset_airport_controller for a controller of facility Tower
ResetTowerController ==
  /\ apt.last # "none"
  /\ apt' = [apt EXCEPT !.tower = FALSE, !.before = apt.runways, !.last = "reset_tower"]
  /\ UNCHANGED <<now, trackVars, wxVars, appVars, prs, lookup, geo, lockVars, closed, stored>>

\* impl From<Airport> for camden::Airport, the runways of the message
SendAirport ==
  /\ apt' = [apt EXCEPT !.sent = <<[r \in AirportRunways |-> RunwayToWire(apt.runways[r])]>>,
                        !.last = "send"]
  /\ UNCHANGED <<now, trackVars, wxVars, appVars, prs, lookup, geo, lockVars, closed, stored>>

----------------------------------------------------------------------------
(* Initial states and specifications *)

\* no task takes a lock
InitLockVars ==
  /\ locks = [l \in LockNames |-> FreeLock]
  /\ proc = [t \in {} |-> IdleProc]
  /\ closed = FALSE
  /\ apt = NoAirport
  /\ stored = [f \in FileNames |-> <<>>]

InitRefVars ==
  /\ InitLockVars
  /\ prs = IdlePrs(<<>>)
  /\ lookup = IdleLookup(NoFixedData, "")
  /\ geo = IdleView(RectNew(0, 0, 0, 0), [lat |-> 0, lng |-> 0])

InitTrackVars ==
  /\ hist = [n \in FileNames |-> <<>>]
  /\ created = [n \in FileNames |-> FALSE]
  /\ ret = NoRet

\* WeatherManager::new
InitWxVars ==
  /\ cache = [s \in Stations |-> NoWx]
  /\ blacklist = [s \in Stations |-> NoItem]
  /\ apireq = 0
  /\ task = [t \in Tasks |-> IdleTask]
  /\ fails = [s \in Stations |-> 0]

\* Manager::new
InitIngVars ==
  /\ ing = IdleIng
  /\ pilots = [c \in Callsigns |-> NoPilot]
  /\ pilots2d = [x \in Callsigns \X Points |-> 0]
  /\ pilots_po = [c \in Callsigns |-> NoPo]
  /\ fixed = [a \in Airports |-> [controllers |-> [f \in Facilities |-> NoCtrl], wx |-> 0]]
  /\ firs = [f \in WorldFirs |-> EmptyMap]
  /\ metrics = [vatsim_data_timestamp |-> 0, pilots_online |-> 0, controllers_online |-> 0,
                tracks |-> 0, trackpoints |-> 0]
  /\ written = {}

\* a session whose stream has just started
InitSession ==
  /\ sess = NewSession
  /\ rx = <<>>
  /\ client = [pilots |-> EmptyMap, airports |-> EmptyMap, firs |-> EmptyMap]

\* no diff, no filter query
InitSessVars ==
  /\ calc = IdleCalc("pilots")
  /\ lee = IdleLee(<<>>)
  /\ InitSession

InitTrack ==
  /\ now = 1000
  /\ files \in [FileNames -> InitialFiles]
  /\ InitTrackVars
  /\ InitRefVars
  /\ InitWxVars
  /\ InitIngVars
  /\ InitSessVars

\* the pilot whose track file is written and read
OnePilot == {"f1"}

\* the operations on one track file, the clock standing still
NextFile ==
  \/ \E n \in OnePilot, v \in Values : StoreTrack(n, v, MaxAppends)
  \/ \E n \in OnePilot : GetTrackPoints(n)
  \/ \E n \in OnePilot, pos \in Positions : ReadAtOp(n, pos)
  \/ \E n \in OnePilot, pos \in Positions, len \in Lengths : ReadMultipleAtOp(n, pos, len)

SpecFile == InitTrack /\ [][NextFile]_vars

\* the track store over time
NextStore ==
  \/ \E n \in FileNames, v \in Values : StoreTrack(n, v, MaxStoreAppends)
  \/ \E n \in FileNames : GetTrackPoints(n)
  \/ Counters
  \/ Cleanup
  \/ TickTrack

SpecStore == InitTrack /\ [][NextStore]_vars

\* the track store with files that take a third, equal entry
NextKeep ==
  \/ \E n \in FileNames, v \in Values : StoreTrack(n, v, MaxKeepAppends)
  \/ Cleanup
  \/ TickTrack

SpecKeep == InitTrack /\ [][NextKeep]_vars

InitWx ==
  /\ now = 2 * WxTick
  /\ files = [n \in FileNames |-> NoFile]
  /\ InitTrackVars
  /\ InitRefVars
  /\ InitWxVars
  /\ InitIngVars
  /\ InitSessVars

\* the weather manager with its two callers
NextWx ==
  \/ \E L \in SUBSET Stations : IngestStart(L)
  \/ SweepScan
  \/ \E t \in Tasks : PreloadCheck(t)
  \/ \E t \in Tasks : PreloadRequest(t, MaxRequests)
  \/ \E t \in Tasks : PreloadResponse(t)
  \/ GetCache("ingest")
  \/ GetRemoteCheck("ingest")
  \/ GetSend("ingest", MaxRequests)
  \/ GetResponse("ingest")
  \/ GetStore("ingest")
  \/ TickWx(MaxTicks)

SpecWx == InitWx /\ [][NextWx]_vars

\* the same over a longer time, one airport being controlled
OneStation == {"EGLL"}

NextBackoff ==
  \/ \E L \in SUBSET OneStation : IngestStart(L)
  \/ SweepScan
  \/ \E t \in Tasks : PreloadCheck(t)
  \/ \E t \in Tasks : PreloadRequest(t, MaxBackoffRequests)
  \/ \E t \in Tasks : PreloadResponse(t)
  \/ GetCache("ingest")
  \/ GetRemoteCheck("ingest")
  \/ GetSend("ingest", MaxBackoffRequests)
  \/ GetResponse("ingest")
  \/ GetStore("ingest")
  \/ TickWx(MaxBackoffTicks)

SpecBackoff == InitWx /\ [][NextBackoff]_vars

\* the track directory at start: no track of the first pilot yet, and a file
\* of the second pilot that is not a track file, so that store_track takes its
\* logged error path for it (the store itself is covered by SpecStore)
InitIngest ==
  /\ now = 1000
  /\ files = [n \in FileNames |-> IF n = "f1" THEN NoFile ELSE BadMagicFile]
  /\ InitTrackVars
  /\ InitRefVars
  /\ InitWxVars
  /\ InitIngVars
  /\ InitSessVars

\* the snapshots of this specification have at most the one tower controller
TowerOnly == {cs \in ControllerLists : \A i \in 1..Len(cs) : cs[i] = "EGLL_TWR"}

\* the ingest loop
NextIngest ==
  \/ IngestFetch(MaxStamp, MaxPilots, MaxIters)
  \/ IngestRemovePo
  \/ IngestRemoveTree
  \/ IngestRemoveMap
  \/ IngestInsert
  \/ IngestPilotMetrics
  \/ IngestControllers(TowerOnly)
  \/ IngestResetControllers
  \/ IngestControllerMetrics
  \/ IngestCounters
  \/ IngestCleanup
  \/ IngestSleep

SpecIngest == InitIngest /\ [][NextIngest]_vars

\* the ingest loop over snapshots without pilots, with the controllers of
\* every list
ShortCodeLists == {<<"A_CTR">>, <<"EGLL_TWR", "A_CTR">>}

NextCtrl ==
  \/ IngestFetch(MaxStamp, 0, MaxIters)
  \/ IngestPilotMetrics
  \/ IngestControllers(ControllerLists \cup ShortCodeLists)
  \/ IngestResetControllers
  \/ IngestControllerMetrics
  \/ IngestCounters
  \/ IngestCleanup
  \/ IngestSleep

SpecCtrl == InitIngest /\ [][NextCtrl]_vars

\* the ingest loop over many iterations: one snapshot without pilots and
\* controllers, then snapshots that are not newer, and fetches that fail
NextLoop ==
  \/ IngestFetch(1, 0, MaxLoopIters)
  \/ IngestPilotMetrics
  \/ IngestControllers({<<>>})
  \/ IngestResetControllers
  \/ IngestControllerMetrics
  \/ IngestCounters
  \/ IngestCleanup
  \/ IngestSleep

SpecLoop == InitIngest /\ [][NextLoop]_vars

\* a session that diffs one kind of entity, tick after tick
InitCalc ==
  /\ now = 1000
  /\ files = [n \in FileNames |-> NoFile]
  /\ InitTrackVars
  /\ InitRefVars
  /\ InitWxVars
  /\ InitIngVars
  /\ calc \in {IdleCalc(k) : k \in Kinds}
  /\ lee = IdleLee(<<>>)
  /\ InitSession

NextCalc == CalcTick(MaxCalcLen)

SpecCalc == InitCalc /\ [][NextCalc]_vars

\* every sequence of at most n lexemes
RECURSIVE RawQueries(_)
RawQueries(n) ==
  IF n = 0 THEN {<<>>}
  ELSE LET shorter == RawQueries(n - 1)
       IN shorter \cup {Append(q, x) : q \in shorter, x \in Lexemes}

\* conditions on three fields of a pilot, each true of some pilots only
Conds == {<<"callsign", "==", "\"AAL1\"">>, <<"lat", ">", "1">>, <<"alt", ">", "1.5">>}
Connectives == {"AND", "OR"}

\* the conditions joined by AND and OR, at most n of them
RECURSIVE Chains(_)
Chains(n) ==
  IF n = 1 THEN Conds
  ELSE LET shorter == Chains(n - 1)
       IN shorter \cup {c \o <<op>> \o q : c \in Conds, op \in Connectives, q \in shorter}

\* one condition on every field and on a field that is none, with a string
\* and with a number; the rules field with every string literal of the model;
\* two of them joined
FieldQueries ==
  LET one == {<<f, op, v>> : f \in ALLOWED_FIELDS \cup {"foo"}, op \in {"==", "!~"},
                             v \in {"\"AAL1\"", "\"(\"", "1"}}
                \cup {<<"rules", "==", v>> : v \in RulesLexemes}
      two == {<<"rules", "==", "\"ifr\"", op, f, "==", v>> :
                op \in Connectives, f \in {"aircraft", "rules", "foo"},
                v \in {"\"V\"", "\"x\"", "1"}}
  IN one \cup two

\* a chain in braces joined with a condition, on either side
Braced ==
  {<<"(">> \o q \o <<")", op>> \o c : q \in Chains(2), op \in Connectives, c \in Conds}
    \cup {c \o <<op, "(">> \o q \o <<")">> : q \in Chains(2), op \in Connectives, c \in Conds}

InitLee ==
  /\ now = 1000
  /\ files = [n \in FileNames |-> NoFile]
  /\ InitTrackVars
  /\ InitRefVars
  /\ InitWxVars
  /\ InitIngVars
  /\ calc = IdleCalc("pilots")
  /\ InitSession
  /\ lee \in {IdleLee(q) : q \in RawQueries(MaxQueryLen) \cup Chains(MaxConds) \cup Braced
                                 \cup FieldQueries}

\* a filter query is parsed, compiled and evaluated
NextLee ==
  \/ LeeMakeExpr
  \/ LeeCompile
  \/ LeeEvaluate

SpecLee == InitLee /\ [][NextLee]_vars

\* the snapshot the ingest loop has processed when the session starts: two
\* pilots, one in the viewport and one outside, a tower and a radar controller
ServedPilots == {[callsign |-> "AAL1", position |-> 1], [callsign |-> "BAW2", position |-> 2]}
ServedControllers == <<"EGLL_TWR", "LON_CTR">>

\* a session starts after the first iteration of the ingest loop, which found
\* no usable track file and sleeps
InitSess ==
  /\ now = 1000 + PollPeriod
  /\ files = [n \in FileNames |-> BadMagicFile]
  /\ InitTrackVars
  /\ InitRefVars
  /\ InitWxVars
  /\ ing = [IdleIng EXCEPT !.ts = 1, !.data_updated_at = 1, !.iter = 1,
                           !.cleanup = CLEANUP_EVERY_X_ITER - 1,
                           !.pilots_callsigns = {p.callsign : p \in ServedPilots},
                           !.controllers = {ServedControllers[i] : i \in 1..Len(ServedControllers)}]
  /\ pilots = [c \in Callsigns |->
                 IF \E p \in ServedPilots : p.callsign = c
                   THEN LET p == CHOOSE q \in ServedPilots : q.callsign = c
                        IN [present |-> TRUE, pos |-> p.position]
                   ELSE NoPilot]
  /\ pilots2d = [x \in Callsigns \X Points |->
                   IF [callsign |-> x[1], position |-> x[2]] \in ServedPilots THEN 1 ELSE 0]
  /\ pilots_po = [c \in Callsigns |->
                    IF \E p \in ServedPilots : p.callsign = c
                      THEN PointObjectOf(CHOOSE q \in ServedPilots : q.callsign = c)
                      ELSE NoPo]
  /\ fixed = SetControllers([a \in Airports |->
                               [controllers |-> [f \in Facilities |-> NoCtrl], wx |-> 0]],
                            ServedControllers, 1)
  /\ firs = SetFirControllers([f \in WorldFirs |-> EmptyMap], ServedControllers, 1)
  /\ metrics = [vatsim_data_timestamp |-> 1, pilots_online |-> 1, controllers_online |-> 2,
                tracks |-> 0, trackpoints |-> 0]
  /\ written = {}
  /\ InitSessVars

\* a session between two iterations of the ingest loop
NextSession ==
  \/ ClientSend(SessionMessages, MaxMessages, MaxPending)
  \/ SessionRecv
  \/ SessionPilots
  \/ SessionAirports
  \/ SessionFirs
  \/ SessionSleep(MaxSessIters)

SpecSession == InitSess /\ [][NextSession]_vars

\* the client of this specification sets its bounds, the weather flag or a
\* subscription, writes its messages faster than the loop takes them, and
\* ends its stream
StreamMessages ==
  {m \in SessionMessages : m.type \in {"Bounds", "ShowWx", "SubscribeId"}}

StepStream ==
  \/ SessionRecv
  \/ SessionPilots
  \/ SessionAirports
  \/ SessionFirs
  \/ SessionSleep(MaxStreamIters)

NextStream ==
  \/ ClientSend(StreamMessages, MaxStreamMessages, MaxStreamPending)
  \/ ClientClose
  \/ StepStream

\* the runtime polls the stream of the session as long as the call lives
SpecStream == InitSess /\ [][NextStream]_vars /\ WF_vars(StepStream)

\* a snapshot of the feed has at most one pilot, and the tower and the radar
\* controller or neither
SessLists == {<<>>, <<"EGLL_TWR", "LON_CTR">>}

\* the client of this specification only sets its bounds
FeedMessages == {m \in SessionMessages : m.type = "Bounds"}

\* the session is about to query the pilots, the first index it reads in a tick
Reading == sess.pc = "pilots"

\* a session beside the ingest loop.  The loop takes its steps right before
\* the session reads: a step it takes at another time is not seen before
\* then, and every state of the loop can be the one a tick reads.
NextFeed ==
  \/ ClientSend(FeedMessages, MaxFeedMessages, MaxPending)
  \/ SessionRecv
  \/ SessionPilots
  \/ SessionAirports
  \/ SessionFirs
  \/ SessionSleep(MaxFeedIters)
  \/ Reading /\ IngestFetch(MaxStamp, MaxPilots - 1, MaxIters)
  \/ Reading /\ IngestRemovePo
  \/ Reading /\ IngestRemoveTree
  \/ Reading /\ IngestRemoveMap
  \/ Reading /\ IngestInsert
  \/ Reading /\ IngestPilotMetrics
  \/ Reading /\ IngestControllers(SessLists)
  \/ Reading /\ IngestResetControllers
  \/ Reading /\ IngestControllerMetrics
  \/ Reading /\ IngestCounters
  \/ Reading /\ IngestCleanup
  \/ Reading /\ IngestSleep

InitFeed ==
  /\ now = 1000
  /\ files = [n \in FileNames |-> BadMagicFile]
  /\ InitTrackVars
  /\ InitRefVars
  /\ InitWxVars
  /\ InitIngVars
  /\ InitSessVars

SpecFeed == InitFeed /\ [][NextFeed]_vars

\* the reference data is parsed from every source of at most MaxLines lines
InitParse ==
  /\ now = 1000
  /\ files = [n \in FileNames |-> NoFile]
  /\ InitTrackVars
  /\ InitWxVars
  /\ InitIngVars
  /\ InitSessVars
  /\ InitLockVars
  /\ prs \in {IdlePrs(src) : src \in Sources(MaxLines)}
  /\ lookup = IdleLookup(NoFixedData, "")
  /\ geo = IdleView(RectNew(0, 0, 0, 0), [lat |-> 0, lng |-> 0])

NextParse ==
  \/ ParseLine
  \/ ParseReturn

SpecParse == InitParse /\ [][NextParse]_vars

\* a code is looked up in every reference data of at most MaxRefLen FIRs,
\* MaxRefLen airports and one UIR
InitLookup ==
  /\ now = 1000
  /\ files = [n \in FileNames |-> NoFile]
  /\ InitTrackVars
  /\ InitWxVars
  /\ InitIngVars
  /\ InitSessVars
  /\ InitLockVars
  /\ prs = IdlePrs(<<>>)
  /\ geo = IdleView(RectNew(0, 0, 0, 0), [lat |-> 0, lng |-> 0])
  /\ lookup \in {IdleLookup([firs |-> f, airports |-> a, uirs |-> u], q) :
                   f \in ListsOf(RefFirs, MaxRefLen), a \in ListsOf(RefAirports, MaxRefLen),
                   u \in ListsOf(RefUirs, 1), q \in Queries}

NextLookup == FindFirs

SpecLookup == InitLookup /\ [][NextLookup]_vars

\* a point at 5 degrees north is looked for in every viewport between the
\* equator and 10 degrees north
InitView ==
  /\ now = 1000
  /\ files = [n \in FileNames |-> NoFile]
  /\ InitTrackVars
  /\ InitWxVars
  /\ InitIngVars
  /\ InitSessVars
  /\ InitLockVars
  /\ prs = IdlePrs(<<>>)
  /\ lookup = IdleLookup(NoFixedData, "")
  /\ geo \in {IdleView(RectNew(w, 0, e, 10 * Deg), [lat |-> 5 * Deg, lng |-> l]) :
                 w \in CornerLngs, e \in CornerLngs, l \in PilotLngs}

NextView ==
  \/ ViewEnvelopes
  \/ ViewLocate

SpecView == InitView /\ [][NextView]_vars

\* the controllers of one airport over the snapshots, and the airport sent to clients
InitAtis ==
  /\ now = 1000
  /\ files = [n \in FileNames |-> NoFile]
  /\ InitTrackVars
  /\ InitRefVars
  /\ InitWxVars
  /\ InitIngVars
  /\ InitSessVars

NextAtis ==
  \/ \E text \in AtisTexts : SetAtisController(text)
  \/ ResetAtisController
  \/ SetTowerController
  \/ ResetTowerController
  \/ SendAirport

SpecAtis == InitAtis /\ [][NextAtis]_vars

\* the ingest loop, the unary calls and n sessions take the locks of the
\* manager
InitLocks(n) ==
  /\ now = 1000
  /\ files = [f \in FileNames |-> NoFile]
  /\ InitTrackVars
  /\ InitWxVars
  /\ InitIngVars
  /\ InitSessVars
  /\ prs = IdlePrs(<<>>)
  /\ lookup = IdleLookup(NoFixedData, "")
  /\ geo = IdleView(RectNew(0, 0, 0, 0), [lat |-> 0, lng |-> 0])
  /\ locks = [l \in LockNames |-> FreeLock]
  /\ proc = [t \in LockTasks(n) |-> IdleProc]
  /\ closed = FALSE
  /\ apt = NoAirport
  /\ stored = [f \in FileNames |-> <<>>]

TaskStep(t) ==
  \/ Acquire(t)
  \/ Release(t)
  \/ Await(t)
  \/ Iterate(t)
  \/ Branch(t)

NextLocks == \E t \in DOMAIN proc : TaskStep(t)

InitLocksAll == InitLocks(MaxSessions)
SpecLocks == InitLocksAll /\ [][NextLocks]_vars

\* the same with fewer sessions; every task that can take a step takes one,
\* as the scheduler of the runtime and the timeouts of the requests make it
InitLocksFair == InitLocks(MaxFairSessions)
SpecLocksFair ==
  InitLocksFair /\ [][NextLocks]_vars
    /\ \A t \in LockTasks(MaxFairSessions) : WF_vars(TaskStep(t))

----------------------------------------------------------------------------
(* Properties of the track file and the track store *)

AllEqual(s) == \A i \in 1..Len(s) : EntryEq(s[i], s[1])

\* C1: append overwrites the last entry, leaving count alone, exactly when
\* the file holds two or more entries and the last two and the new entry are
\* all equal; otherwise it writes the entry after the last and count grows by
\* one.  Three equal appends to a new file leave count = 2 and the last entry
\* carries the third timestamp.
AppendContract ==
  [][(ret'.op = "append" /\ ret'.kind = "ok") =>
      LET n == ret'.file
          e == ret'.val[1]
          old == Opened(n).file
          c == old.count
          compact == /\ c >= 2
                     /\ EntryEq(old.body[c - 1], old.body[c])
                     /\ EntryEq(old.body[c], e)
      IN /\ IF compact
              THEN /\ files'[n].count = c
                   /\ files'[n].body = [old.body EXCEPT ![c] = e]
              ELSE /\ files'[n].count = c + 1
                   /\ files'[n].body = Append(old.body, e)
         /\ (created'[n] /\ Len(hist'[n]) = 3 /\ AllEqual(hist'[n])) =>
              /\ files'[n].count = 2
              /\ files'[n].body[2].ts = hist'[n][3].ts
              /\ files'[n].body[1].ts = hist'[n][1].ts
    ]_vars

ThreeEqualAppends ==
  \E n \in FileNames :
    /\ ret.op = "append" /\ ret.kind = "ok" /\ ret.file = n
    /\ created[n] /\ Len(hist[n]) = 3 /\ AllEqual(hist[n])
    /\ files[n].count = 2

\* C2: a file created by open and then appended to has the length
\* header_size + count * entry_size and an intact magic number, so that
\* opening it again passes the integrity check.
FileIntegrity ==
  \A n \in FileNames :
    created[n] =>
      /\ files[n].exists
      /\ files[n].magic = TRACK_MAGIC_NUMBER
      /\ FileLen(files[n]) = HeaderSize + files[n].count * EntrySize
      /\ New(files[n], now).err = "ok"

OverwrittenFileIntact ==
  \E n \in FileNames :
    /\ created[n] /\ ret.op = "append" /\ ret.file = n
    /\ files[n].count >= 2 /\ Len(hist[n]) > files[n].count

\* the reference compaction: a maximal run of two or more equal entries
\* becomes its first and its last entry
RunLength(s) ==
  CHOOSE k \in 1..Len(s) :
    /\ \A i \in 1..k : EntryEq(s[i], s[1])
    /\ (k < Len(s) => ~EntryEq(s[k + 1], s[1]))

RECURSIVE Compact(_)
Compact(s) ==
  IF s = <<>> THEN <<>>
  ELSE LET k == RunLength(s)
           head == IF k >= 2 THEN <<s[1], s[k]>> ELSE <<s[1]>>
       IN head \o Compact(SubSeq(s, k + 1, Len(s)))

\* C3: read_all returns count entries in insertion order, and they are the
\* reference compaction of the appended sequence.
ReadAllIsCompaction ==
  /\ \A n \in FileNames :
       created[n] =>
         LET r == ReadAll(files[n])
         IN r.kind = "ok" /\ Len(r.val) = files[n].count /\ r.val = Compact(hist[n])
  /\ (ret.op = "read_all" /\ ret.kind = "ok" /\ created[ret.file]) =>
       ret.val = Compact(hist[ret.file])

ReadAllAfterCompaction ==
  \E n \in FileNames :
    /\ ret.op = "read_all" /\ ret.kind = "ok" /\ ret.file = n /\ created[n]
    /\ Len(hist[n]) = MaxAppends
    /\ Len(ret.val) >= 3 /\ Len(ret.val) < Len(hist[n])

Min(a, b) == IF a < b THEN a ELSE b

\* C4: read_at fails with an index error exactly when the index is not below
\* count; read_multiple_at returns, for every position and length, the
\* entries at pos .. min(pos + len, count) - 1, an empty sequence when there
\* are none, and never faults.
ReadsStayInRange ==
  LET f == files[ret.file]
      opened == ret.kind \notin {"InvalidMagicNumber", "InvalidFileLength"}
  IN /\ (ret.op = "read_at" /\ opened) =>
          /\ ret.kind \in {"ok", "IndexError"}
          /\ ret.kind = "IndexError" <=> ret.pos >= f.count
          /\ ret.kind = "ok" => ret.val = <<f.body[ret.pos + 1]>>
     /\ (ret.op = "read_multiple_at" /\ opened) =>
          /\ ret.kind = "ok"
          /\ LET last == Min(ret.pos + ret.len, f.count)
             IN ret.val = IF ret.pos + 1 > last THEN <<>>
                          ELSE SubSeq(f.body, ret.pos + 1, last)

\* the part of C4 that the code keeps: as above, for positions up to count
ReadsStayInRangeUpToCount ==
  LET f == files[ret.file]
      opened == ret.kind \notin {"InvalidMagicNumber", "InvalidFileLength"}
  IN (ret.op = "read_multiple_at" /\ opened /\ ret.pos <= f.count) =>
       /\ ret.kind = "ok"
       /\ LET last == Min(ret.pos + ret.len, f.count)
          IN ret.val = IF ret.pos + 1 > last THEN <<>>
                       ELSE SubSeq(f.body, ret.pos + 1, last)

\* a file that fails the integrity rules of open
Corrupt(f) ==
  f.exists /\ (f.magic # TRACK_MAGIC_NUMBER \/ FileLen(f) # HeaderSize + f.count * EntrySize)

Sound(fs) == {n \in FileNames : fs[n].exists /\ ~Corrupt(fs[n])}

\* C5: opening a file with a wrong magic number or a wrong length fails with
\* an integrity error and leaves the file as it is; counters and cleanup skip
\* such a file and process every other file.
CorruptFilesRejected ==
  [][/\ (ret'.op \in {"append", "read_all"} /\ Corrupt(files[ret'.file])) =>
          /\ ret'.kind \in {"InvalidMagicNumber", "InvalidFileLength"}
          /\ files' = files
     /\ ret'.op = "counters" =>
          /\ ret'.tc = Cardinality(Sound(files))
          /\ ret'.tpc = SumCounts(files, Sound(files))
          /\ files' = files
     /\ ret'.op = "cleanup" =>
          /\ \A n \in FileNames : Corrupt(files[n]) => files'[n] = files[n]
          /\ \A n \in Sound(files) : TooOld(files[n], now) <=> ~files'[n].exists
    ]_vars

WalkPastCorruptFile ==
  /\ ret.op = "counters" /\ ret.tc = 1 /\ ret.tpc = MaxStoreAppends
  /\ \E n \in FileNames : Corrupt(files[n])

\* C6: a cleanup pass deletes every track file whose header timestamp is more
\* than two days old and no file whose timestamp is within the last two days.
CleanupByAge ==
  [][ret'.op = "cleanup" =>
       \A n \in Sound(files) :
         (now - files[n].ts > TwoDaysMs) <=> ~files'[n].exists
    ]_vars

----------------------------------------------------------------------------
(* Properties of the weather cache *)

RECURSIVE Pow2(_)
Pow2(k) == IF k <= 0 THEN 1 ELSE 2 * Pow2(k - 1)

\* C7: the k-th consecutive failed lookup of a station, k counted since the
\* station's last successful fetch or since the start, sets the station's
\* blacklist duration to 3600 * 2^(k-1) seconds.
BackoffByConsecutiveFailures ==
  [][\A s \in Stations :
       blacklist'[s] # blacklist[s] =>
         blacklist'[s].duration = BlacklistSec * 1000 * Pow2(fails'[s] - 1)
    ]_vars

\* what the code keeps of C7: the duration counts the empty lookups since the
\* start, a successful fetch in between or not
BackoffByAllFailures ==
  \A s \in Stations :
    blacklist[s].present =>
      \E k \in 1..MaxBackoffRequests :
        blacklist[s].duration = BlacklistSec * 1000 * Pow2(k - 1) /\ fails[s] <= k

\* the step in which get_remote of task t returned without an observation
\* after its request was sent
GetFailed(t) == task[t].pc = "get_wait" /\ task'[t].pc \notin {"get_wait", "get_store"}

\* C8: a get that is not served from the cache creates the station's
\* blacklist entry, or doubles the one there is, when the upstream returns
\* an empty result and also when the request or its decoding fails.
FailedGetBlacklists ==
  [][\A t \in Tasks :
       GetFailed(t) =>
         LET s == task[t].station
             old == blacklist[s]
         IN /\ blacklist'[s].present
            /\ blacklist'[s].set_at = now
            /\ blacklist'[s].duration =
                 IF old.present THEN 2 * old.duration ELSE BlacklistSec * 1000
    ]_vars

\* the stations of the upstream request that task t sends in this step
Requested(t) ==
  IF task[t].pc = "filter" /\ task'[t].pc = "preload_wait" THEN task[t].results
  ELSE IF task[t].pc = "get_send" /\ task'[t].pc = "get_wait" THEN {task[t].station}
  ELSE {}

\* the blacklist entry of s is there and its duration has not elapsed
Unexpired(s) ==
  blacklist[s].present /\ now <= blacklist[s].set_at + blacklist[s].duration

\* C9: while a station has a blacklist entry whose duration has not elapsed,
\* neither get nor preload sends an upstream request for it; once the
\* duration has elapsed, get and preload ask for the station again.
NoRequestWhileBlacklisted ==
  [][\A t \in Tasks :
       /\ \A s \in Requested(t) : ~Unexpired(s)
       /\ (task[t].pc = "remote_check" /\ task'[t] # task[t] /\ ~Unexpired(task[t].station)) =>
            task'[t].pc = "get_send"
    ]_vars

\* what the code keeps of C9: a station found blacklisted by the check of a
\* call is not asked for by this call
NoRequestWhenCheckedBlacklisted ==
  [][\A t \in Tasks :
       /\ (task[t].pc = "remote_check" /\ task'[t] # task[t] /\ Unexpired(task[t].station)) =>
            task'[t].pc \notin {"get_send", "get_wait"}
       /\ (task[t].pc = "filter" /\ task'[t] # task[t]) =>
            \A s \in task'[t].results \ task[t].results : ~Unexpired(s)
    ]_vars

\* the step is one of task t inside a preload that was called with the
\* locations of the task's preceding preload
InSecondPreload(t) ==
  task[t].same /\ task[t].pc \in {"filter", "preload_wait"} /\ task'[t] # task[t]

\* C10: two successive preload calls with the same locations leave the cache
\* as it was after the first call, and the second call sends no upstream
\* request when every requested station has a fresh cache entry.
PreloadTwiceSameCache ==
  [][\A t \in Tasks :
       InSecondPreload(t) =>
         /\ cache' = cache
         /\ (task[t].pc = "filter" /\ task[t].todo = {} /\ task[t].allFresh) =>
              apireq' = apireq
    ]_vars

\* C10 as amended: a preload finding a fresh cache entry for every requested
\* station sends no upstream request and leaves the cache alone; any other
\* preload replaces at most the entries of the stations it found without a
\* fresh entry.
PreloadIdempotent ==
  [][\A t \in Tasks :
       /\ (task[t].pc = "filter" /\ task'[t] # task[t]) =>
            /\ cache' = cache
            /\ \A s \in task'[t].results \ task[t].results :
                 ~(cache[s].present /\ now - cache[s].ts < MetarTtl)
            /\ (task[t].todo = {} /\ task[t].allFresh) =>
                 /\ apireq' = apireq
                 /\ task'[t].pc \notin {"filter", "preload_wait"}
       /\ (task[t].pc = "preload_wait" /\ task'[t] # task[t]) =>
            \A s \in Stations : cache'[s] # cache[s] => s \in task[t].results
    ]_vars

\* a second preload of both stations has found both of them fresh
SecondPreloadAllFresh ==
  /\ task["ingest"].pc = "filter"
  /\ task["ingest"].todo = {}
  /\ task["ingest"].same
  /\ task["ingest"].locs = Stations
  /\ task["ingest"].allFresh
  /\ task["ingest"].results = {}
  /\ apireq = 1

----------------------------------------------------------------------------
(* Properties of the ingest loop *)

\* the indexes the ingest loop maintains
indexes == <<pilots, pilots2d, pilots_po, fixed, firs>>

\* a step of an iteration whose snapshot is not newer than the last processed
StaleStep == ing.stale \/ ing'.stale

\* C11 as stated: during an ingest iteration whose snapshot has updated_at <=
\* the last processed updated_at, no index (pilot map, R-tree, mirror map,
\* controller and weather state of the reference data) and no metric is
\* mutated.
StaleIterationMutatesNothing ==
  [][StaleStep => /\ UNCHANGED indexes
                  /\ UNCHANGED metrics
                  /\ written' = {}
    ]_vars

\* C11 as amended: during such an iteration no index is mutated, and the only
\* metrics set are the load time of the fetch and the counters of the track
\* store with their fetch time; the metrics of snapshot processing stay.
StaleIterationFrame ==
  [][StaleStep => /\ UNCHANGED indexes
                  /\ written' \subseteq {"vatsim_data_load_time_sec",
                                         "database_objects_count",
                                         "database_objects_count_fetch_time_sec"}
                  /\ metrics'.vatsim_data_timestamp = metrics.vatsim_data_timestamp
                  /\ metrics'.pilots_online = metrics.pilots_online
                  /\ metrics'.controllers_online = metrics.controllers_online
    ]_vars

\* a stale iteration has just recorded the counters, pilots being indexed
StaleIterationCounted ==
  /\ ing.stale
  /\ ing.pc = "cleanup"
  /\ "database_objects_count" \in written
  /\ \E c \in Callsigns : pilots[c].present

\* the callsigns of the snapshot being processed
SnapshotCallsigns == {c \in Callsigns : ing.seen[c] # 0}

\* C12: after the pilot phase of a processed snapshot the keys of the pilot
\* map, the keys of the mirror map and the ids in the R-tree are the callsigns
\* of the snapshot, with one tree entry per callsign at the pilot's current
\* position; for an empty pilot list all three are empty.
PilotPhaseIndexes ==
  ing.pc = "pilot_metrics" =>
    /\ {c \in Callsigns : pilots[c].present} = SnapshotCallsigns
    /\ {c \in Callsigns : pilots_po[c].present} = SnapshotCallsigns
    /\ \A c \in Callsigns, pt \in Points :
         pilots2d[<<c, pt>>] = IF ing.seen[c] = pt THEN 1 ELSE 0
    /\ \A c \in SnapshotCallsigns :
         /\ pilots[c].pos = ing.seen[c]
         /\ pilots_po[c] = [present |-> TRUE, id |-> c, point |-> ing.seen[c]]

\* the pilot phase has ended for a snapshot in which one pilot of the previous
\* snapshot has moved and the other is absent
PilotMovedOtherGone ==
  /\ ing.pc = "pilot_metrics"
  /\ ing.pilots_callsigns = Callsigns
  /\ SnapshotCallsigns = {"AAL1"}
  /\ ing.seen["AAL1"] = 2
  /\ pilots["AAL1"].pos = 2

----------------------------------------------------------------------------
(* Properties of the session diff *)

\* the entries of the current result, and their keys
CurEntries == {calc.cur[i] : i \in 1..Len(calc.cur)}
CurKeys == {KeyOf(calc.kind, x) : x \in CurEntries}
SetEntries == {calc.set[i] : i \in 1..Len(calc.set)}

\* equality of two entities as the diff of their kind tests it
KindEq(kind, a, b) ==
  IF kind = "pilots" THEN PilotEq(a, b)
  ELSE IF kind = "airports" THEN AirportEq(a, b) ELSE FirEq(a, b)

\* C13 as stated: the Set batch is exactly the entries of the current result
\* that are absent from the retained map or differ from the retained value,
\* the Delete batch is exactly the retained entries whose key is not in the
\* current result, and afterwards the retained map equals the current result.
DiffBatchesExact ==
  calc.done =>
    /\ SetEntries = {x \in CurEntries :
                       \/ KeyOf(calc.kind, x) \notin DOMAIN calc.before
                       \/ calc.before[KeyOf(calc.kind, x)] # x}
    /\ calc.delete = {calc.before[k] : k \in DOMAIN calc.before \ CurKeys}
    /\ DOMAIN calc.prev = CurKeys
    /\ \A x \in CurEntries : calc.prev[KeyOf(calc.kind, x)] = x

\* C13 as amended: the same with "differ" and "equals" read as the equality
\* of the entity, under which two airports or two FIRs whose controllers
\* differ in last_updated only are equal; an entry that is not in the Set
\* batch keeps its retained value, and no entry is in the Set batch twice.
DiffBatchesByEquality ==
  calc.done =>
    /\ SetEntries = {x \in CurEntries :
                       \/ KeyOf(calc.kind, x) \notin DOMAIN calc.before
                       \/ ~KindEq(calc.kind, calc.before[KeyOf(calc.kind, x)], x)}
    /\ Len(calc.set) = Cardinality(SetEntries)
    /\ calc.delete = {calc.before[k] : k \in DOMAIN calc.before \ CurKeys}
    /\ DOMAIN calc.prev = CurKeys
    /\ \A x \in CurEntries :
         LET k == KeyOf(calc.kind, x)
         IN /\ KindEq(calc.kind, calc.prev[k], x)
            /\ x \in SetEntries => calc.prev[k] = x
            /\ x \notin SetEntries => calc.prev[k] = calc.before[k]
    /\ calc.kind = "pilots" => \A x \in CurEntries : calc.prev[x.callsign] = x

\* a diff of airports has emitted nothing although the tower controller of a
\* retained airport has a newer last_updated in the current result
ControllerStampNotEmitted ==
  /\ calc.done
  /\ calc.kind = "airports"
  /\ calc.set = <<>>
  /\ calc.delete = {}
  /\ \E x \in CurEntries :
       /\ calc.prev[x.id].controllers["tower"].lu = 1
       /\ x.controllers["tower"].lu = 2

----------------------------------------------------------------------------
(* Properties of the filter language *)

\* what a condition of Conds says of a pilot
CondHolds(c, pilot) ==
  IF c[1] = "callsign" THEN pilot.callsign = "AAL1"
  ELSE IF c[1] = "lat" THEN pilot.position > 1
  ELSE 2 * pilot.altitude > 3

\* C19: the parser is right-associative with no precedence between AND and
\* OR: `a AND b OR c` evaluates to a AND (b OR c), and `a OR b AND c` to
\* a OR (b AND c), for all truth values of a, b and c.
RightAssociative ==
  lee.pc = "evaluated" =>
    \A a \in Conds, b \in Conds, c \in Conds :
      LET A == CondHolds(a, lee.pilot)
          B == CondHolds(b, lee.pilot)
          C == CondHolds(c, lee.pilot)
      IN /\ lee.query = a \o <<"AND">> \o b \o <<"OR">> \o c =>
              lee.verdict = (A /\ (B \/ C))
         /\ lee.query = a \o <<"OR">> \o b \o <<"AND">> \o c =>
              lee.verdict = (A \/ (B /\ C))

\* `callsign == "AAL1" AND lat > 1 OR alt > 1.5` is false of a pilot that
\* satisfies the last condition only
AndBindsNoTighter ==
  /\ lee.pc = "evaluated"
  /\ lee.query = <<"callsign", "==", "\"AAL1\"", "AND", "lat", ">", "1", "OR",
                   "alt", ">", "1.5">>
  /\ lee.pilot.callsign = "BAW2"
  /\ lee.pilot.position = 1
  /\ lee.pilot.altitude = 2
  /\ ~lee.verdict

\* the values that parse_value reads as a number or a string
ScalarLexemes == {"1"} \cup FloatLexemes \cup StringLexemes

\* C20: the type rules are enforced at parse time: =~ or !~ with an integer
\* or float right-hand side, or <, <=, >, >= with a string right-hand side,
\* makes make_expr fail with a type error; == and != are accepted with any
\* scalar right-hand side.
TypeRulesAtParse ==
  (/\ lee.pc # "new"
   /\ Len(lee.query) >= 3
   /\ lee.query[1] \in IdentLexemes
   /\ lee.query[2] \in OperatorLexemes
   /\ lee.query[3] \in ScalarLexemes) =>
    LET op == lee.query[2]
        v == lee.query[3]
        mistyped == \/ op \in {"=~", "!~"} /\ v \notin StringLexemes
                    \/ op \in {"<", "<=", ">", ">="} /\ v \in StringLexemes
    IN /\ mistyped => ~lee.res.ok /\ lee.res.err = "InvalidValueType"
       /\ (~mistyped /\ Len(lee.query) = 3) => lee.res.ok
       /\ ~mistyped => lee.res.ok \/ lee.res.err # "InvalidValueType"

\* `callsign < "AAL1"` has been refused for the type of its value
StringAfterLess ==
  /\ lee.pc = "parsed"
  /\ lee.query = <<"callsign", "<", "\"AAL1\"">>
  /\ ~lee.res.ok
  /\ lee.res.err = "InvalidValueType"

\* the kinds of the leaves of an expression
RECURSIVE LeafKinds(_)
LeafKinds(expr) ==
  (IF expr.left.kind = "Expression" THEN LeafKinds(expr.left.expr) ELSE {expr.left.kind})
    \cup (IF expr.operator = "None" THEN {} ELSE LeafKinds(expr.right))

\* the conditions of an expression as it was parsed
RECURSIVE Conditions(_)
Conditions(expr) ==
  (IF expr.left.kind = "Expression" THEN Conditions(expr.left.expr)
   ELSE IF expr.left.kind = "Condition" THEN {expr.left.cond} ELSE {})
    \cup (IF expr.operator = "None" THEN {} ELSE Conditions(expr.right))

\* a condition on none of the ten fields
UnknownField(c) ==
  c.ident \notin {"callsign", "name", "alt", "gs", "lat", "lng", "aircraft", "arrival",
                  "departure", "rules"}
\* a rules condition whose value is no string, or a string that names no
\* flight rules
BadRulesValue(c) ==
  c.ident = "rules" /\ (c.value.type # "string" \/ c.value.str \notin {"ifr", "V"})

\* C21: for every filter expression that parses, compiling against the pilot
\* resolver either fails with a named field or type reason (an identifier
\* outside the ten recognised fields, or an invalid rules value) or succeeds
\* with every condition leaf replaced by a compiled predicate, so that evaluate
\* never reaches an uncompiled leaf and returns a boolean for every pilot, with
\* or without flight plan.
CompileFailsNamedOrCompilesAll ==
  lee.pc \in {"compiled", "evaluated"} =>
    LET conds == Conditions(lee.res.expr)
    IN /\ lee.compiled.ok =>
            /\ LeafKinds(lee.compiled.expr) = {"CompiledFilter"}
            /\ \A c \in conds : ~UnknownField(c) /\ ~BadRulesValue(c)
       /\ ~lee.compiled.ok =>
            \/ /\ lee.compiled.err = "not a valid field to query"
               /\ \E c \in conds : UnknownField(c)
            \/ /\ lee.compiled.err \in {"invalid rules value", "invalid rules value type"}
               /\ \E c \in conds : BadRulesValue(c)
       /\ lee.pc = "evaluated" =>
            /\ lee.compiled.ok
            /\ lee.verdict \in BOOLEAN
            /\ (\A c \in conds : c.ident \in {"rules", "aircraft", "arrival", "departure"})
                 /\ ~lee.pilot.flight_plan.some => ~lee.verdict

\* `rules == "ifr" OR aircraft == "V"` has compiled and is false of a pilot
\* without flight plan
RulesOfPilotWithoutPlan ==
  /\ lee.pc = "evaluated"
  /\ lee.query = <<"rules", "==", "\"ifr\"", "OR", "aircraft", "==", "\"V\"">>
  /\ ~lee.pilot.flight_plan.some
  /\ ~lee.verdict

----------------------------------------------------------------------------
(* Properties of the reference data *)

\* a source without its line i
RemoveLine(src, i) == SubSeq(src, 1, i - 1) \o SubSeq(src, i + 1, Len(src))

\* the lines with a wrong field count for every section, with a coordinate
\* that is no number, or with a header that is none
MalformedLines ==
  {<<"UK", "|", "EG">>,
   <<"EGLL", "|", "Heathrow", "|", "north", "|", "0", "|", "LHR", "|", "EGTT", "|", "0">>}
    \cup OddHeaders

\* C22: the reference-data parser is never fatal: for every input text it
\* terminates and returns data; a line with a wrong field count, unparsable
\* coordinates or a malformed section header is skipped without aborting and
\* without changing how other lines are parsed, and no line after [IDL]
\* contributes to the result.
ParserNeverFatal ==
  /\ prs.st.pc # "panicked"
  /\ prs.done =>
       /\ \A i \in 1..Len(prs.src) :
            prs.src[i] \in MalformedLines =>
              ParseSrc(RemoveLine(prs.src, i)) = [ok |-> TRUE, data |-> prs.data]
       /\ \A i \in 1..Len(prs.src) :
            Trim(prs.src[i]) = <<"[", "IDL", "]">> =>
              ParseSrc(SubSeq(prs.src, 1, i)) = [ok |-> TRUE, data |-> prs.data]

\* the FIRs a code names, by ICAO code or else by prefix
ByCode(d, code) ==
  LET by_icao == {i \in 1..Len(d.firs) : d.firs[i].icao = code}
      by_prefix == {i \in 1..Len(d.firs) : d.firs[i].prefix = code}
  IN IF by_icao # {} THEN by_icao ELSE by_prefix

\* the airports a code names: by IATA code, or else the first by ICAO code
AirportsOf(d, code) ==
  LET c == IF code = "EGLLX" THEN "EGLL" ELSE code
      by_iata == {i \in 1..Len(d.airports) : d.airports[i].iata = c}
      by_icao == {i \in 1..Len(d.airports) : d.airports[i].icao = c}
  IN IF by_iata # {} THEN by_iata
     ELSE {i \in by_icao : \A j \in by_icao : i <= j}

\* the lists of FIRs a UIR of the code expands to: one FIR for each of its
\* FIR ids that names one, in their order
ByUir(d, code) ==
  {r \in ListsOf(1..Len(d.firs), 2) :
     \E u \in 1..Len(d.uirs) :
       /\ d.uirs[u].icao = code
       /\ LET ids == d.uirs[u].fir_ids
              named == SelectSeq(ids, LAMBDA id : ByCode(d, id) # {})
          IN /\ Len(r) = Len(named)
             /\ \A i \in 1..Len(r) : r[i] \in ByCode(d, named[i])}

\* C23: FIR lookup by code returns the result of the first stage that
\* succeeds, in this order: FIR-ICAO map, FIR-prefix map, airport lookup
\* (code truncated to 4 characters, IATA index before first ICAO match)
\* resolved to that airport's FIR id, UIR map expanded into its referenced
\* FIRs; it returns the empty list when no stage succeeds.
FirLookupStages ==
  lookup.done =>
    LET d == lookup.data
        q == lookup.query
        r == lookup.result
        by_uir == IF ByUir(d, q) # {} THEN r \in ByUir(d, q) ELSE r = <<>>
    IN IF ByCode(d, q) # {} THEN Len(r) = 1 /\ r[1] \in ByCode(d, q)
       ELSE IF AirportsOf(d, q) = {} THEN by_uir
       ELSE \E a \in AirportsOf(d, q) :
              LET of_airport == ByCode(d, d.airports[a].fir_id)
              IN IF of_airport # {} THEN Len(r) = 1 /\ r[1] \in of_airport
                 ELSE by_uir

\* EGLLX is no FIR; it names by IATA code the second airport, not by ICAO code
\* the first, and the lookup has returned the FIR of the second
AirportStageByIata ==
  /\ lookup.done
  /\ lookup.query = "EGLLX"
  /\ lookup.data.firs = <<[icao |-> "EGTT", prefix |-> "EGTT"]>>
  /\ lookup.data.airports = <<[icao |-> "EGLL", iata |-> "", fir_id |-> ""],
                              [icao |-> "EGLL", iata |-> "EGLL", fir_id |-> "EGTT"]>>
  /\ lookup.result = <<1>>

\* the longitudes of an envelope
LngWithin(env, lng) == env.lower.lng <= lng /\ lng <= env.upper.lng

\* C24: Rect.envelopes() returns two envelopes iff the rect straddles the
\* antimeridian (south_west.lng > north_east.lng), and then their longitude
\* ranges together cover [sw.lng, 180) and [-180, ne.lng]; for every rect that
\* does not straddle it returns exactly one envelope equal to the rect. A
\* viewport query therefore returns a pilot at (5, 175) and one at (5, -175)
\* for Rect(170, 0, -170, 10) but not one at (5, 0).
EnvelopesSplitAtAntimeridian ==
  geo.pc # "new" =>
    LET sw == geo.rect.south_west
        ne == geo.rect.north_east
        straddles == sw.lng > ne.lng
    IN /\ Len(geo.envs) = 2 <=> straddles
       /\ straddles =>
            \A lng \in PilotLngs :
              (\E i \in 1..Len(geo.envs) : LngWithin(geo.envs[i], lng))
                <=> \/ sw.lng <= lng /\ lng < 180 * Deg
                    \/ -180 * Deg <= lng /\ lng <= ne.lng
       /\ ~straddles => geo.envs = <<[lower |-> sw, upper |-> ne]>>
       /\ (geo.pc = "located" /\ geo.rect = RectNew(170 * Deg, 0, -170 * Deg, 10 * Deg)) =>
            /\ geo.point.lng \in {175 * Deg, -175 * Deg} => geo.found
            /\ geo.point.lng = 0 => ~geo.found

----------------------------------------------------------------------------
(* Properties of the session *)

SessKinds == {"pilots", "airports", "firs"}

\* what a client has made of the batches of a kind
ClientView(kind) ==
  IF kind = "pilots" THEN client.pilots
  ELSE IF kind = "airports" THEN client.airports ELSE client.firs

\* the result the session computed for a kind at its last tick, by key
TickResult(kind) ==
  IF kind = "pilots" THEN sess.res_pilots
  ELSE IF kind = "airports" THEN sess.res_airports ELSE sess.res_firs

\* the map the session retains for a kind
RetainedState(kind) ==
  IF kind = "pilots" THEN sess.pilots_state
  ELSE IF kind = "airports" THEN sess.airports_state ELSE sess.firs_state

\* a map of entities as the client receives them
WireImage(kind, m) == [k \in DOMAIN m |-> Wire(kind, m[k])]

\* C14 as stated: after every tick and for every entity kind, the map a client
\* builds by applying each Set batch and then each Delete batch is exactly the
\* result the session computed at that tick.
ClientViewIsResult ==
  sess.ticked => \A kind \in SessKinds : ClientView(kind) = WireImage(kind, TickResult(kind))

\* C14 as amended: the view of the client is always exactly what the session
\* retains; after a tick it has the keys of the result of that tick, its
\* pilots are those of the result, and its airports and FIRs equal those of
\* the result up to the last_updated of their controllers.
ClientViewIsRetained ==
  /\ \A kind \in SessKinds : ClientView(kind) = WireImage(kind, RetainedState(kind))
  /\ sess.ticked =>
       /\ \A kind \in SessKinds :
            /\ DOMAIN ClientView(kind) = DOMAIN TickResult(kind)
            /\ \A k \in DOMAIN TickResult(kind) :
                 KindEq(kind, RetainedState(kind)[k], TickResult(kind)[k])
       /\ client.pilots = WireImage("pilots", sess.res_pilots)

\* after a tick the client holds an airport whose tower controller it saw at
\* the first snapshot, while the result of the tick has it at the second, and
\* a pilot of an earlier tick is gone from its view
ClientBehindResult ==
  /\ sess.ticked
  /\ \E k \in DOMAIN client.airports :
       /\ client.airports[k].controllers["tower"].last_updated = 1000
       /\ sess.res_airports[k].controllers["tower"].lu = 2
  /\ client.pilots = EmptyMap
  /\ metrics.pilots_online > 0
\* the step of a tick that queries, filters and diffs the pilots
PilotsStep == sess.pc = "pilots" /\ sess'.pc = "airports"

\* the pilot of a callsign lies outside the viewport of the session; below
\* MIN_ZOOM the session queries the entire data set and nothing lies outside
OutsideViewport(c) == Zoom(sess.bounds) >= MIN_ZOOM /\ ~InRect(pilots[c].pos)

\* the session has a filter and the pilot of a callsign does not match it; the
\* one filter of SessionQueries that compiles accepts the callsign AAL1 only
FailsFilter(c) == sess.filter.some /\ c # "AAL1"

\* C15: at every tick with bounds set, every online pilot whose callsign is
\* subscribed is part of the pilot result of the tick and of the view of the
\* client, whether or not it lies inside the viewport or matches the filter;
\* a pilot the session retains that is not subscribed any more and lies
\* outside the viewport or fails the filter is in the Delete batch of the tick.
SubscribedPilotsShown ==
  [][PilotsStep =>
       /\ sess.bounds # "none"
       /\ \A c \in sess.subscriptions :
            pilots[c].present =>
              /\ c \in DOMAIN sess'.res_pilots
              /\ sess'.res_pilots[c] = PilotOf(c)
              /\ c \in DOMAIN client'.pilots
       /\ \A c \in DOMAIN sess.pilots_state \ sess.subscriptions :
            OutsideViewport(c) \/ FailsFilter(c) =>
              /\ sess.pilots_state[c] \in sess'.batch.delete
              /\ c \notin DOMAIN client'.pilots]_vars

\* the tick after an UnsubscribeId has deleted the pilot BAW2, which is
\* online outside the viewport and was part of the tick before
UnsubscribedPilotDeleted ==
  /\ sess.pc = "airports"
  /\ sess.got = "UnsubscribeId"
  /\ sess.bounds = "view"
  /\ pilots["BAW2"].present
  /\ ~InRect(pilots["BAW2"].pos)
  /\ PilotOf("BAW2") \in sess.batch.delete
  /\ "BAW2" \notin DOMAIN client.pilots
\* the step of an iteration that takes a message from the channel
TakesMessage == sess.pc = "recv" /\ sess'.pc # "recv" /\ rx # <<>>

\* C16: when a message is accepted in an iteration and bounds are set,
\* possibly by that very message, the session computes and emits the deltas in
\* that same iteration: it goes on to the queries with the time of the receipt,
\* and by the sleep of the iteration the tick is done.
MessageForcesTick ==
  /\ [][TakesMessage /\ sess'.bounds # "none" =>
          /\ sess'.pc = "pilots"
          /\ sess'.dt = now
          /\ sess'.got = Head(rx).type]_vars
  /\ [](sess.pc = "sleep" /\ sess.got # "" /\ sess.bounds # "none" =>
          /\ sess.ticked
          /\ sess.last_tick = sess.dt
          /\ sess.next_update = sess.dt + UpdatePeriod)

\* an iteration has taken a message before the deltas were due, and its tick
\* is done
EarlyMessageTicked ==
  /\ sess.pc = "sleep"
  /\ sess.got # ""
  /\ sess.early
  /\ sess.ticks = 1
  /\ sess.ticked
  /\ sess.last_tick = now

\* a step that starts a tick, and a step that is part of one
TickStarts == sess.pc = "recv" /\ sess'.pc = "pilots"
TickStep == sess.pc \in {"pilots", "airports", "firs"}

\* C17: the session computes deltas only in iterations where bounds are set
\* and now >= next_update, and nothing is emitted outside a tick; when no
\* message was taken since the previous computation, the two are at least
\* 5 s apart.
TickOnlyWhenDue ==
  [][/\ TickStarts =>
          /\ sess'.bounds # "none"
          /\ now >= sess'.next_update
          /\ sess.next_update <= now \/ rx # <<>>
          /\ sess.ticks = 1 /\ ~sess'.msg_since => now >= sess.last_tick + UpdatePeriod
     /\ client' # client => TickStep
     /\ <<sess'.pilots_state, sess'.airports_state, sess'.firs_state>>
          # <<sess.pilots_state, sess.airports_state, sess.firs_state>> => TickStep]_vars

\* a second tick has started without a message, exactly 5 s after the first
SecondTickAfterPeriod ==
  /\ sess.pc = "pilots"
  /\ sess.ticks = 1
  /\ ~sess.msg_since
  /\ sess.dt = sess.last_tick + UpdatePeriod

\* of the filter strings of SessionQueries, the one that is not empty, parses
\* and compiles against the fields of a pilot
WellFormed(flt) == flt = <<"callsign", "==", "\"AAL1\"">>

\* the step of an iteration that takes a Filter message
TakesFilter == TakesMessage /\ Head(rx).type = "Filter"

\* the pilot of a callsign is online and the session queries its position
InBounds(c) == pilots[c].present /\ (Zoom(sess.bounds) < MIN_ZOOM \/ InRect(pilots[c].pos))

\* C18: after a Filter message the session has the compiled expression as its
\* filter if the string is not empty, parses and compiles; otherwise it has no
\* filter at all, whatever filter it had; and a session without a filter
\* passes every pilot in bounds.
FilterMessageSetsFilter ==
  [][/\ TakesFilter =>
          IF WellFormed(Head(rx).flt)
            THEN /\ sess'.filter.some
                 /\ \A c \in Callsigns :
                      Evaluate(sess'.filter.expr, [callsign |-> c, position |-> 1, altitude |-> 0])
                        = (c = "AAL1")
            ELSE sess'.filter = NoFilter
     /\ PilotsStep /\ ~sess.filter.some =>
          \A c \in Callsigns : InBounds(c) => c \in DOMAIN sess'.res_pilots
     /\ PilotsStep /\ sess.filter.some =>
          \A c \in Callsigns \ sess.subscriptions :
            c \in DOMAIN sess'.res_pilots <=> InBounds(c) /\ c = "AAL1"]_vars

\* the tick of a Filter message that left the session without a filter has
\* set the pilot BAW2, which the filter of the tick before had kept back
FilterDiscarded ==
  /\ sess.pc = "airports"
  /\ sess.got = "Filter"
  /\ ~sess.filter.some
  /\ sess.ticks = 1
  /\ \E i \in 1..Len(sess.batch.set) : sess.batch.set[i].callsign = "BAW2"

----------------------------------------------------------------------------
(* Properties of the manager's indexes and locks *)

\* the callsigns with a point object in the R-tree
InTree == {c \in Callsigns : \E pt \in Points : pilots2d[<<c, pt>>] > 0}
\* the callsigns of the pilot map
InMap == {c \in Callsigns : pilots[c].present}

\* C25: at every instant observable by a reader, a callsign is either present
\* in both the pilot map and the pilot R-tree or absent from both, for all
\* interleavings of the ingest loop's per-pilot remove and insert steps with
\* concurrent session queries.
MapAndTreeAgree == Reading => InTree = InMap

\* the callsign was in the snapshot processed before and is in the one the
\* ingest loop is processing: it is the pilot at hand or was inserted already
InBothSnapshots(c) ==
  /\ c \in ing.pilots_callsigns
  /\ ing.pc \in {"rm_po", "rm_tree", "rm_map", "insert"}
  /\ c \in ing.fresh \/ (ing.cur.callsign = c /\ ing.after = "insert")

\* the pilot the session retains and the pilot of the snapshot at hand are
\* both inside the viewport, and the session has no filter
StaysInView(c) ==
  /\ ~sess.filter.some
  /\ c \in DOMAIN sess.pilots_state
  /\ \/ Zoom(sess.bounds) < MIN_ZOOM
     \/ InRect(sess.pilots_state[c].position) /\ InRect(ing.seen[c])

\* C26: if a pilot's callsign is present in two consecutively processed
\* snapshots and the pilot stays inside a session's viewport and filter, that
\* session never emits a Delete for that pilot, even when the session's tick
\* runs while the ingest loop is in the middle of processing the second
\* snapshot.
NoDeleteBetweenSnapshots ==
  [][PilotsStep =>
       \A c \in Callsigns :
         InBothSnapshots(c) /\ StaysInView(c) =>
           \A x \in sess'.batch.delete : x.callsign # c]_vars


\* the manager's locks a task holds, in the order it took them
HeldOfManager(t) == SelectSeq(proc[t].held, LAMBDA l : l \in ManagerLocks)

\* the locks are held in the order of their ranks
InOrder(held, rank) ==
  \A i, j \in 1..Len(held) : i < j => rank[held[i]] < rank[held[j]]

\* reference data, pilot map, pilot tree, pilot mirror, airport tree, FIR
\* tree, track store, metrics
DeclaredRank ==
  [l \in ManagerLocks |->
    CASE l = "fixed" -> 1
      [] l = "pilots" -> 2
      [] l = "pilots2d" -> 3
      [] l = "pilots_po" -> 4
      [] l = "airports2d" -> 5
      [] l = "firs2d" -> 6
      [] l = "tracks" -> 7
      [] l = "metrics" -> 8]

\* pilot tree, pilot mirror, pilot map, track store, airport tree, FIR tree,
\* metrics, reference data
TakenRank ==
  [l \in ManagerLocks |->
    CASE l = "pilots2d" -> 1
      [] l = "pilots_po" -> 2
      [] l = "pilots" -> 3
      [] l = "tracks" -> 4
      [] l = "airports2d" -> 5
      [] l = "firs2d" -> 6
      [] l = "metrics" -> 7
      [] l = "fixed" -> 8]

\* C27: every task that holds more than one of the manager's locks took
\* them in the order reference data, pilot map, pilot tree, pilot mirror,
\* airport tree, FIR tree, track store, metrics
LocksInDeclaredOrder ==
  \A t \in DOMAIN proc : InOrder(HeldOfManager(t), DeclaredRank)

\* C27, amended: every task that holds more than one of the manager's locks
\* took them in the order pilot tree, pilot mirror, pilot map, track store,
\* airport tree, FIR tree, metrics, reference data
LocksInTakenOrder ==
  \A t \in DOMAIN proc : InOrder(HeldOfManager(t), TakenRank)

\* the ingest loop holds the tree, the mirror, the map, the track store and
\* the reference data of a pilot at once, and a session its tree and its map
IngestHoldsFive ==
  /\ IngestTask \in DOMAIN proc
  /\ HeldOfManager(IngestTask) = <<"pilots2d", "pilots_po", "pilots", "tracks", "fixed">>
  /\ \E t \in DOMAIN proc : t[1] = "session" /\ Len(HeldOfManager(t)) = 2

\* the locks a task holds for writing
WriteHeld(t) == {l \in LockNames : <<t, "w">> \in locks[l].holders}

\* a task has sent a request upstream and awaits its answer
AtNetwork(t) == t \in DOMAIN proc /\ OpAt(t).kind = "net"
AtWeather(t) == AtNetwork(t) /\ OpAt(t).lock \in {"preload", "get"}

\* C29: the ingest loop never holds two locks for writing while it sends or
\* awaits a request for the snapshot or for the weather
OneWriteLockAtNetwork ==
  AtNetwork(IngestTask) => Cardinality(WriteHeld(IngestTask)) <= 1

\* the ingest loop awaits the weather of one airport with the reference data
\* locked for writing, and with no other lock
WeatherAwaitedUnderWriteLock ==
  /\ AtWeather(IngestTask)
  /\ OpAt(IngestTask).lock = "get"
  /\ WriteHeld(IngestTask) = {"fixed"}

\* a task waits for a lock that another task holds
WaitsFor(t, u) ==
  /\ proc[t].waiting
  /\ \E h \in locks[OpAt(t).lock].holders : h[1] = u

\* C30: no query of a session and no unary lookup of an airport waits for a
\* lock that the ingest loop holds while it awaits the weather
NoWaitBehindWeather ==
  AtWeather(IngestTask) =>
    \A t \in DOMAIN proc \ {IngestTask} : ~WaitsFor(t, IngestTask)

----------------------------------------------------------------------------
(* Properties of the stream of a session *)

\* C31: when the deltas of an iteration are computed, every message that
\* waited in the channel at the start of the iteration has been consumed
PendingConsumedBeforeDeltas == sess.pc = "pilots" => rx = <<>>

\* the state of the manager that the tasks share: the indexes, the reference
\* data, the track store and the metrics
sharedVars == <<pilots, pilots2d, pilots_po, fixed, firs, metrics, written, trackVars>>

\* C39: after the stream of the client has ended the loop of the session
\* ends, and no step of the session changes the shared state of the manager
SessionEndsAndChangesNothing ==
  /\ closed ~> sess.pc = "done"
  /\ [][StepStream => UNCHANGED sharedVars]_vars

\* the loop has ended after it took a message that was left in the channel
\* when the stream ended, and after it sent deltas
EndedAfterBufferedMessage ==
  /\ sess.pc = "done"
  /\ closed
  /\ sess.sent = MaxStreamMessages
  /\ sess.ticks = 1
  /\ sess.iters >= MaxStreamIters

----------------------------------------------------------------------------
(* Properties of the controller phase *)

\* the controllers of the snapshot that resolve to an airport and a facility
ResolveTo(a, f) ==
  {c \in ing.controllers : CtrlFacility(c) = f /\ CtrlAirport(c) = a}

\* C32: after the controller phase of a snapshot the slot of every airport
\* and facility holds a controller of the snapshot if one resolves to it,
\* and is empty otherwise
SlotsFollowSnapshot ==
  ing.pc = "ctrl_metrics" =>
    \A a \in Airports : \A f \in Facilities :
      IF ResolveTo(a, f) # {}
        THEN fixed[a].controllers[f].cs \in ResolveTo(a, f)
        ELSE fixed[a].controllers[f] = NoCtrl

\* C38: no step that processes a fetched snapshot ends the task of the
\* ingest loop, whatever the snapshot holds
SnapshotNeverAborts ==
  [][ing.pc \in {"fetch", "rm_po", "rm_tree", "rm_map", "insert", "pilot_metrics",
                 "controllers", "reset", "ctrl_metrics", "counters"}
       => ing'.pc # "panic"]_vars

----------------------------------------------------------------------------
(* Properties of the ingest loop over its iterations *)

\* the number of the iteration the loop is in
Iteration == ing.iter + 1
\* the loop ends an iteration without having had a snapshot
FetchFailed == ing.pc = "fetch" /\ ing'.pc = "fetch" /\ ing'.iter = ing.iter + 1
\* the loop passes its countdown, and calls Store::cleanup or not
Countdown == ing.pc = "cleanup" /\ ing'.pc # "cleanup"
CleanupCalled == Countdown /\ ing.cleanup = 1

\* C34: the cleanup of the track store runs in every fifth iteration of the
\* ingest loop and in no other
CleanupEveryFifth ==
  [][/\ Countdown => (CleanupCalled <=> Iteration % CLEANUP_EVERY_X_ITER = 0)
     /\ FetchFailed => Iteration % CLEANUP_EVERY_X_ITER # 0]_vars

\* C35: the countdown of the cleanup is never decremented while it is 0
CountdownNeverBelowZero == [][Countdown => ing.cleanup # 0]_vars

\* C36: after a fetch the loop fetches again only after it has slept for
\* the poll period
SleepBetweenFetches == [][ing.pc = "fetch" => ing'.pc # "fetch"]_vars

----------------------------------------------------------------------------
(* Properties of the cleanup against the stores of a track *)

\* the files a cleanup step deletes although store_track succeeded for them
\* less than two days before
FreshAndDeleted ==
  {n \in FileNames : /\ ret'.op = "cleanup"
                     /\ n \in ret'.names
                     /\ stored[n] # <<>>
                     /\ now - stored[n][1] < TwoDaysMs}

\* C37: a cleanup never deletes the track file of a pilot for whom store_track
\* succeeded less than two days earlier, a store that overwrote the last entry
\* of the file included
CleanupKeepsFreshTracks == [][FreshAndDeleted = {}]_vars


----------------------------------------------------------------------------
(* Properties of the active runways of an airport *)

\* the flags that the text of an ATIS controller gives a runway, none without a controller
FlagsOf(atis, r) ==
  IF atis = <<>> THEN NewRunway
  ELSE [active_to |-> r \in DetectDepartures(NormalizeAtisText(atis[1], TRUE)),
        active_lnd |-> r \in DetectArrivals(NormalizeAtisText(atis[1], TRUE))]

\* C33: an airport with an empty ATIS slot has no runway active for landing or
\* for takeoff, and an airport with an ATIS controller has exactly the flags
\* that the text of that controller gives, whatever an earlier ATIS gave
AtisDecidesRunways == \A r \in AirportRunways : apt.runways[r] = FlagsOf(apt.atis, r)

\* an ATIS controller replaced another: a runway that was active for landing
\* is no longer, another one is
AtisReplacedAtis ==
  /\ apt.last = "set_atis"
  /\ apt.before["27"].active_lnd /\ ~apt.runways["27"].active_lnd
  /\ ~apt.before["09L"].active_to /\ apt.runways["09L"].active_to

\* C40: the landing flag of a runway in a message equals active_lnd of the
\* runway, the takeoff flag equals active_to
EmittedFlagsAreInternal ==
  [][apt'.last = "send" =>
       \A r \in AirportRunways :
         /\ apt'.sent[1][r].active_lnd = apt.runways[r].active_lnd
         /\ apt'.sent[1][r].active_to = apt.runways[r].active_to]_vars

====
